---- MODULE Spec2Model ----
(***************************************************************************)
(* Modus: the SLD resolver (src/src/sld.rs) as a state machine.            *)
(*                                                                         *)
(* sld::inner is a recursive function; its call stack is the variable      *)
(* `stack`, one frame per invocation of inner.  The term algebra           *)
(* (unification, substitution), the builtin dispatcher and the groundness  *)
(* analysis live in modules of the crate that sld.rs only imports; they    *)
(* are written here from sections 4.1 to 4.3 of the specification.         *)
(*                                                                         *)
(* Indices (literal ids, body indices, rule ids, tree levels) are 0-based  *)
(* as in the Rust code; TLA+ sequences are 1-based, hence the "+ 1" where  *)
(* a sequence is indexed.  The text of a constant or of a variable name is  *)
(* a sequence of characters; a predicate name is a string.                 *)
(***************************************************************************)
EXTENDS Integers, Sequences, FiniteSets, TLC

VARIABLES rules, goal, maxdepth, grounded, stack, result, pc, auxCtr, sols, prfs,
          AVAILABLE_LITERAL_INDEX, threads, issued, index_at_start,
          input, const_result, file_result,
          build_plan, image_ids, json_out_writer, json_out, write_result,
          surface, pruned_clause, text, reparsed,
          frontend_build_plan, options, local_context, awaiting, translated_nodes,
          node_id, plan_result

translator_vars == <<AVAILABLE_LITERAL_INDEX, threads, issued, index_at_start>>

parser_vars == <<input, const_result, file_result>>

reporting_vars == <<build_plan, image_ids, json_out_writer, json_out, write_result>>

surface_vars == <<surface, pruned_clause, text, reparsed>>

frontend_vars == <<frontend_build_plan, options, local_context, awaiting,
                   translated_nodes, node_id, plan_result>>

non_resolver_vars == <<translator_vars, parser_vars, reporting_vars, surface_vars,
                       frontend_vars>>

vars == <<rules, goal, maxdepth, grounded, stack, result, pc, auxCtr, sols, prfs,
          non_resolver_vars>>

----------------------------------------------------------------------------
(* Bounds of the model.                                                    *)

MaxRules == 3
MaxDepth == 3
MaxArcs == 3
MaxStr == 4
MaxNodes == 5
MaxRaw == 4
MaxOutputs == 2
MaxPlanNodes == 3

----------------------------------------------------------------------------
(* Terms, literals, clauses (logic IR, specification section 3).           *)

Constant(s) == [k |-> "Constant", s |-> s, n |-> 0]
UserVariable(s) == [k |-> "UserVariable", s |-> s, n |-> 0]
AuxiliaryVariable(n) == [k |-> "AuxiliaryVariable", s |-> <<>>, n |-> n]

IsConstant(t) == t.k = "Constant"

Literal(p, args) == [predicate |-> p, args |-> args]

Clause(h, b) == [head |-> h, body |-> b]

Signature(l) == <<l.predicate, Len(l.args)>>

Range(f) == {f[x] : x \in DOMAIN f}

LiteralVariables(l) == {t \in Range(l.args) : ~IsConstant(t)}

GoalVariables(g) == UNION {LiteralVariables(g[i]) : i \in DOMAIN g}

AllConstant(l) == \A i \in DOMAIN l.args : IsConstant(l.args[i])

----------------------------------------------------------------------------
(* Substitutions (specification section 4.1).                              *)

EmptySubstitution == [v \in {} |-> v]

Bind(v, t) == [x \in {v} |-> t]

SubstituteTerm(t, s) == IF t \in DOMAIN s THEN s[t] ELSE t

SubstituteLiteral(l, s) ==
    [predicate |-> l.predicate,
     args |-> [i \in DOMAIN l.args |-> SubstituteTerm(l.args[i], s)]]

SubstituteGoal(g, s) == [i \in DOMAIN g |-> SubstituteLiteral(g[i], s)]

SubstituteClause(c, s) ==
    [head |-> SubstituteLiteral(c.head, s), body |-> SubstituteGoal(c.body, s)]

compose_no_extend(l, r) == [v \in DOMAIN l |-> SubstituteTerm(l[v], r)]

compose_extend(l, r) ==
    [v \in DOMAIN l \cup DOMAIN r |->
        IF v \in DOMAIN l THEN SubstituteTerm(l[v], r) ELSE r[v]]

(* Unification of two literals: the argument pairs are walked left to      *)
(* right, each pair taken under the bindings made so far.                  *)
RECURSIVE unify_arglist(_, _, _, _)
unify_arglist(current, other, i, s) ==
    IF i > Len(current) THEN [ok |-> TRUE, s |-> s]
    ELSE LET x == SubstituteTerm(current[i], s)
             y == SubstituteTerm(other[i], s)
         IN  IF x = y THEN unify_arglist(current, other, i + 1, s)
             ELSE IF IsConstant(x) /\ IsConstant(y)
                  THEN [ok |-> FALSE, s |-> EmptySubstitution]
             ELSE IF IsConstant(x)
                  THEN unify_arglist(current, other, i + 1,
                                     compose_extend(s, Bind(y, x)))
             ELSE unify_arglist(current, other, i + 1,
                                compose_extend(s, Bind(x, y)))

unify(self, other) ==
    IF Signature(self) # Signature(other)
    THEN [ok |-> FALSE, s |-> EmptySubstitution]
    ELSE unify_arglist(self.args, other.args, 1, EmptySubstitution)

(* The variables of a clause in order of first occurrence (head first).    *)
RECURSIVE Dedup(_, _)
Dedup(seq, seen) ==
    IF seq = <<>> THEN <<>>
    ELSE IF Head(seq) \in seen THEN Dedup(Tail(seq), seen)
    ELSE <<Head(seq)>> \o Dedup(Tail(seq), seen \cup {Head(seq)})

RECURSIVE FlattenArgs(_)
FlattenArgs(lits) ==
    IF lits = <<>> THEN <<>> ELSE Head(lits).args \o FlattenArgs(Tail(lits))

ClauseVariables(c) ==
    Dedup(SelectSeq(FlattenArgs(<<c.head>> \o c.body), LAMBDA t : ~IsConstant(t)),
          {})

(* A renaming that does not advance the counter.                           *)
rename_with_sub_reused(c, ctr) ==
    LET vs == ClauseVariables(c)
        renaming == [v \in Range(vs) |->
                        AuxiliaryVariable(ctr + (CHOOSE i \in DOMAIN vs : vs[i] = v) - 1)]
    IN  [clause |-> SubstituteClause(c, renaming),
         renaming |-> renaming,
         ctr |-> ctr]

(* Renaming: every variable of the clause becomes an auxiliary variable    *)
(* numbered from the process-wide counter, which advances by one for each. *)
rename_with_sub(c, ctr) ==
    LET vs == ClauseVariables(c)
        renaming == [v \in Range(vs) |->
                        AuxiliaryVariable(ctr + (CHOOSE i \in DOMAIN vs : vs[i] = v) - 1)]
    IN  [clause |-> SubstituteClause(c, renaming),
         renaming |-> renaming,
         ctr |-> ctr + Len(vs)]

----------------------------------------------------------------------------
(* Builtin dispatcher (specification section 4.2): string_concat/3.        *)

IsPrefix(p, s) == Len(p) <= Len(s) /\ SubSeq(s, 1, Len(p)) = p

IsSuffix(p, s) == Len(p) <= Len(s) /\ SubSeq(s, Len(s) - Len(p) + 1, Len(s)) = p

select_builtin(lit) ==
    IF Signature(lit) # <<"string_concat", 3>> THEN "NoMatch"
    ELSE IF Cardinality({i \in 1..3 : IsConstant(lit.args[i])}) >= 2 THEN "Match"
    ELSE "GroundnessMismatch"

NoLiteral == Literal("", <<>>)

(* pred.apply(lit): the candidate instantiated literal, if there is one.   *)
builtin_apply(lit) ==
    LET a == lit.args[1].s
        b == lit.args[2].s
        c == lit.args[3].s
        mk(x, y, z) == [some |-> TRUE,
                        lit |-> Literal("string_concat",
                                        <<Constant(x), Constant(y), Constant(z)>>)]
        none == [some |-> FALSE, lit |-> NoLiteral]
    IN  IF IsConstant(lit.args[1]) /\ IsConstant(lit.args[2]) THEN mk(a, b, a \o b)
        ELSE IF IsConstant(lit.args[2]) /\ IsConstant(lit.args[3])
             THEN IF IsSuffix(b, c) THEN mk(SubSeq(c, 1, Len(c) - Len(b)), b, c)
                  ELSE none
        ELSE IF IsPrefix(a, c) THEN mk(a, SubSeq(c, Len(a) + 1, Len(c)), c)
        ELSE none

----------------------------------------------------------------------------
(* Groundness analysis (specification section 4.3).  grounded[sig][i] is   *)
(* TRUE when, in every clause defining sig, head argument i is a constant  *)
(* or a variable that occurs in the body.                                  *)

infer(c) ==
    [i \in DOMAIN c.head.args |->
        IsConstant(c.head.args[i]) \/ c.head.args[i] \in GoalVariables(c.body)]

check_grounded_variables(rs) ==
    [sig \in {Signature(rs[r].head) : r \in DOMAIN rs} |->
        [i \in 1..sig[2] |->
            \A r \in DOMAIN rs : Signature(rs[r].head) = sig => infer(rs[r])[i]]]

----------------------------------------------------------------------------
(* Clause ids, goals with history, trees (sld.rs, lines 40 to 91).         *)

RuleId(rid) == [kind |-> "Rule", rid |-> rid, lit |-> NoLiteral]
QueryId == [kind |-> "Query", rid |-> 0, lit |-> NoLiteral]
BuiltinId(lit) == [kind |-> "Builtin", rid |-> 0, lit |-> lit]

LiteralOrigin(cid, i) == [clause |-> cid, body_index |-> i]

LiteralWithHistory(l, intro, origin) ==
    [literal |-> l, introduction |-> intro, origin |-> origin]

Tree(g, level, resolvents) == [goal |-> g, level |-> level, resolvents |-> resolvents]

EmptyResolvents == [key \in {} |-> key]

None == [some |-> FALSE, tree |-> Tree(<<>>, 0, EmptyResolvents)]
Some(tree) == [some |-> TRUE, tree |-> tree]

(* impl Substitute for GoalWithHistory *)
SubstituteGoalWithHistory(g, s) ==
    [i \in DOMAIN g |->
        LiteralWithHistory(SubstituteLiteral(g[i].literal, s),
                           g[i].introduction, g[i].origin)]

----------------------------------------------------------------------------
(* sld::select: the leftmost literal with compatible groundness.           *)

(* Variants of the closure with a slip in it, used to show that the        *)
(* properties below depend on it: one that ignores the groundness vector,  *)
(* one that reads the vector the other way round, one that lets an         *)
(* unknown predicate pass as not selectable.                               *)
select_closure_ungrounded(literal, g) ==
    IF select_builtin(literal) = "Match" THEN "true"
    ELSE IF Signature(literal) \in DOMAIN g THEN "true"
    ELSE IF select_builtin(literal) = "GroundnessMismatch" THEN "false"
    ELSE "panic"

select_closure_flipped(literal, g) ==
    IF select_builtin(literal) = "Match" THEN "true"
    ELSE IF Signature(literal) \in DOMAIN g
         THEN IF \A j \in DOMAIN literal.args :
                    ~g[Signature(literal)][j] \/ IsConstant(literal.args[j])
              THEN "true" ELSE "false"
    ELSE IF select_builtin(literal) = "GroundnessMismatch" THEN "false"
    ELSE "panic"

select_closure_nopanic(literal, g) ==
    IF select_builtin(literal) = "Match" THEN "true"
    ELSE IF Signature(literal) \in DOMAIN g
         THEN IF \A j \in DOMAIN literal.args :
                    g[Signature(literal)][j] \/ IsConstant(literal.args[j])
              THEN "true" ELSE "false"
    ELSE "false"

(* The closure given to find: "true", "false", or "panic" for a literal    *)
(* that is neither a builtin nor a predicate of the rule set.              *)
select_closure(literal, g) ==
    IF select_builtin(literal) = "Match" THEN "true"
    ELSE IF Signature(literal) \in DOMAIN g
         THEN IF \A j \in DOMAIN literal.args :
                    g[Signature(literal)][j] \/ IsConstant(literal.args[j])
              THEN "true" ELSE "false"
    ELSE IF select_builtin(literal) = "GroundnessMismatch" THEN "false"
    ELSE "panic"

(* A scan that keeps the last literal the closure accepts, not the first.  *)
RECURSIVE select_find_last(_, _, _)
select_find_last(gl, g, i) ==
    IF i > Len(gl) THEN [kind |-> "none", lid |-> 0]
    ELSE LET r == select_closure(gl[i].literal, g)
             later == select_find_last(gl, g, i + 1)
         IN  IF r = "panic" THEN [kind |-> "panic", lid |-> i - 1]
             ELSE IF later.kind # "none" THEN later
             ELSE IF r = "true" THEN [kind |-> "some", lid |-> i - 1]
             ELSE later

RECURSIVE select_find(_, _, _)
select_find(gl, g, i) ==
    IF i > Len(gl) THEN [kind |-> "none", lid |-> 0]
    ELSE LET r == select_closure(gl[i].literal, g)
         IN  IF r = "panic" THEN [kind |-> "panic", lid |-> i - 1]
             ELSE IF r = "true" THEN [kind |-> "some", lid |-> i - 1]
             ELSE select_find(gl, g, i + 1)

select(gl, g) == select_find(gl, g, 1)

(* resolve with the body tagged one level too low. *)
resolve_wrong_level(lid, rid, gl, mgu, rule, level) ==
    LET removed == SubSeq(gl, 1, lid) \o SubSeq(gl, lid + 2, Len(gl))
        added == [id \in DOMAIN rule.body |->
                    LiteralWithHistory(rule.body[id], level - 1,
                                       LiteralOrigin(rid, id - 1))]
    IN  SubstituteGoalWithHistory(removed \o added, mgu)

(* resolve with the body of the clause put before the rest of the goal.    *)
resolve_body_first(lid, rid, gl, mgu, rule, level) ==
    LET removed == SubSeq(gl, 1, lid) \o SubSeq(gl, lid + 2, Len(gl))
        added == [id \in DOMAIN rule.body |->
                    LiteralWithHistory(rule.body[id], level,
                                       LiteralOrigin(rid, id - 1))]
    IN  SubstituteGoalWithHistory(added \o removed, mgu)

(* sld::resolve *)
resolve(lid, rid, gl, mgu, rule, level) ==
    LET removed == SubSeq(gl, 1, lid) \o SubSeq(gl, lid + 2, Len(gl))
        added == [id \in DOMAIN rule.body |->
                    LiteralWithHistory(rule.body[id], level,
                                       LiteralOrigin(rid, id - 1))]
    IN  SubstituteGoalWithHistory(removed \o added, mgu)

(* A variant of builtin_resolves that keeps the candidate without unifying *)
(* it with the selected literal.                                           *)
builtin_resolves_no_unify(l) ==
    IF select_builtin(l) # "Match" THEN [some |-> FALSE, lit |-> NoLiteral,
                                         mgu |-> EmptySubstitution]
    ELSE LET cand == builtin_apply(l)
             u == unify(cand.lit, l)
         IN  IF cand.some
             THEN [some |-> TRUE, lit |-> cand.lit,
                   mgu |-> IF u.ok THEN u.s ELSE EmptySubstitution]
             ELSE [some |-> FALSE, lit |-> NoLiteral, mgu |-> EmptySubstitution]

(* The builtin resolvent of the selected literal, if there is one. *)
builtin_resolves(l) ==
    IF select_builtin(l) # "Match" THEN [some |-> FALSE, lit |-> NoLiteral,
                                         mgu |-> EmptySubstitution]
    ELSE LET cand == builtin_apply(l)
             u == unify(cand.lit, l)
         IN  IF cand.some /\ u.ok
             THEN [some |-> TRUE, lit |-> cand.lit, mgu |-> u.s]
             ELSE [some |-> FALSE, lit |-> NoLiteral, mgu |-> EmptySubstitution]

(* A scan that takes every rule for a candidate, whatever its signature.   *)
RECURSIVE matching_rules_any_signature(_, _, _)
matching_rules_any_signature(rs, l, r) ==
    IF r > Len(rs) THEN <<>>
    ELSE <<RuleId(r - 1)>> \o matching_rules_any_signature(rs, l, r + 1)

(* The rule ids whose head has the signature of the literal, in rule order.*)
RECURSIVE matching_rules(_, _, _)
matching_rules(rs, l, r) ==
    IF r > Len(rs) THEN <<>>
    ELSE (IF Signature(rs[r].head) = Signature(l) THEN <<RuleId(r - 1)>> ELSE <<>>)
         \o matching_rules(rs, l, r + 1)

(* builtin_resolves.chain(user_rules_resolves): the clauses still to try.  *)
candidates(rs, l) ==
    (IF builtin_resolves(l).some THEN <<BuiltinId(builtin_apply(l).lit)>> ELSE <<>>)
    \o matching_rules(rs, l, 1)

----------------------------------------------------------------------------
(* The call stack of sld::inner.                                           *)

Frame(g, level, key, mgu, renaming) ==
    [goal |-> g, level |-> level, phase |-> "call", lid |-> 0, cands |-> <<>>,
     resolvents |-> EmptyResolvents, key |-> key, mgu |-> mgu,
     renaming |-> renaming, ret |-> None]

Top == stack[Len(stack)]

SetTop(f) == [stack EXCEPT ![Len(stack)] = f]

(* A tagging of the query that gives every literal the body index 0.       *)
goal_with_history_one_index(g) ==
    [id \in DOMAIN g |-> LiteralWithHistory(g[id], 0, LiteralOrigin(QueryId, 0))]

goal_with_history(g) ==
    [id \in DOMAIN g |-> LiteralWithHistory(g[id], 0, LiteralOrigin(QueryId, id - 1))]

(* The body of inner up to the selection (sld.rs, lines 222 to 235).       *)
depth_exceeded_off_by_one(level, md) == level > md

depth_exceeded(level, md) == level >= md

inner_enter ==
    /\ pc = "run"
    /\ stack # <<>>
    /\ Top.phase = "call"
    /\ LET f == Top
           sel == select(f.goal, grounded)
       IN  IF f.goal = <<>>
           THEN /\ stack' = SetTop([f EXCEPT !.phase = "ret",
                                    !.ret = Some(Tree(f.goal, f.level, EmptyResolvents))])
                /\ pc' = pc
           ELSE IF depth_exceeded(f.level, maxdepth)
           THEN /\ stack' = SetTop([f EXCEPT !.phase = "ret", !.ret = None])
                /\ pc' = pc
           ELSE IF sel.kind = "panic"
           THEN /\ stack' = stack
                /\ pc' = "panic"
           ELSE IF sel.kind = "none"
           THEN /\ stack' = SetTop([f EXCEPT !.phase = "ret", !.ret = None])
                /\ pc' = pc
           ELSE /\ stack' = SetTop([f EXCEPT !.phase = "iter", !.lid = sel.lid,
                                    !.cands = candidates(rules, f.goal[sel.lid + 1].literal)])
                /\ pc' = pc
    /\ UNCHANGED <<rules, goal, maxdepth, grounded, result, auxCtr, sols, prfs,
                   non_resolver_vars>>

(* One element of the resolvent iterator (sld.rs, lines 237 to 286): the   *)
(* clause is renamed, its head unified with the selected literal, and      *)
(* inner is called on the resolvent at level + 1.                          *)
inner_expand ==
    /\ pc = "run"
    /\ stack # <<>>
    /\ Top.phase = "iter"
    /\ Top.cands # <<>>
    /\ LET f == Top
           cid == Head(f.cands)
           l == f.goal[f.lid + 1].literal
           rest == [f EXCEPT !.cands = Tail(f.cands)]
       IN  IF cid.kind = "Builtin"
           THEN LET b == builtin_resolves(l)
                    r == resolve(f.lid, cid, f.goal, b.mgu,
                                 Clause(b.lit, <<>>), f.level + 1)
                IN  /\ stack' = Append(SetTop(rest),
                                       Frame(r, f.level + 1, <<f.lid, cid>>, b.mgu,
                                             EmptySubstitution))
                    /\ auxCtr' = auxCtr
           ELSE LET rn == rename_with_sub(rules[cid.rid + 1], auxCtr)
                    u == unify(rn.clause.head, l)
                    r == resolve(f.lid, cid, f.goal, u.s, rn.clause, f.level + 1)
                IN  /\ auxCtr' = rn.ctr
                    /\ stack' = IF u.ok
                                THEN Append(SetTop(rest),
                                            Frame(r, f.level + 1, <<f.lid, cid>>, u.s,
                                                  rn.renaming))
                                ELSE SetTop(rest)
    /\ UNCHANGED <<rules, goal, maxdepth, grounded, result, pc, sols, prfs,
                   non_resolver_vars>>

(* A frame that reports success although no resolvent produced a tree.    *)
frame_result_always_some(f) ==
    IF f.phase = "ret" THEN f.ret
    ELSE Some(Tree(f.goal, f.level, f.resolvents))

(* The value a frame returns (sld.rs, lines 287 to 295). *)
frame_result(f) ==
    IF f.phase = "ret" THEN f.ret
    ELSE IF DOMAIN f.resolvents = {} THEN None
    ELSE Some(Tree(f.goal, f.level, f.resolvents))

(* A map keyed by the selected literal alone: a later resolvent of the     *)
(* same literal takes the place of an earlier one.                         *)
insert_by_literal(m, key, val) ==
    [k \in {x \in DOMAIN m : x[1] # key[1]} \cup {key} |->
        IF k = key THEN val ELSE m[k]]

(* HashMap insert, as collect() fills the resolvents map.                  *)
insert(m, key, val) ==
    [k \in DOMAIN m \cup {key} |-> IF k = key THEN val ELSE m[k]]

(* inner returns; the caller keeps the sub-tree if there is one.           *)
inner_return ==
    /\ pc = "run"
    /\ stack # <<>>
    /\ Top.phase = "ret" \/ (Top.phase = "iter" /\ Top.cands = <<>>)
    /\ LET f == Top
           r == frame_result(f)
       IN  IF Len(stack) = 1
           THEN /\ stack' = <<>>
                /\ result' = r
                /\ pc' = "done"
           ELSE LET p == stack[Len(stack) - 1]
                    q == IF r.some
                         THEN [p EXCEPT !.resolvents =
                                  insert(p.resolvents, f.key,
                                         [mgu |-> f.mgu, renaming |-> f.renaming,
                                          tree |-> r.tree])]
                         ELSE p
                IN  /\ stack' = [SubSeq(stack, 1, Len(stack) - 1)
                                   EXCEPT ![Len(stack) - 1] = q]
                    /\ result' = result
                    /\ pc' = pc
    /\ UNCHANGED <<rules, goal, maxdepth, grounded, auxCtr, sols, prfs,
                   non_resolver_vars>>

----------------------------------------------------------------------------
(* solutions (sld.rs, lines 319 to 351).                                   *)

(* A variant of solutions_inner that leaves out the MGU of the step.       *)
RECURSIVE solutions_inner_without_mgu(_)
solutions_inner_without_mgu(tree) ==
    IF tree.goal = <<>> THEN {EmptySubstitution}
    ELSE UNION {solutions_inner_without_mgu(tree.resolvents[k].tree) :
                   k \in DOMAIN tree.resolvents}

RECURSIVE solutions_inner(_)
solutions_inner(tree) ==
    IF tree.goal = <<>> THEN {EmptySubstitution}
    ELSE UNION {{compose_extend(tree.resolvents[k].mgu, s) :
                    s \in solutions_inner(tree.resolvents[k].tree)} :
                k \in DOMAIN tree.resolvents}

solutions(tree) ==
    {[i \in DOMAIN tree.goal |-> SubstituteLiteral(tree.goal[i].literal, s)] :
        s \in solutions_inner(tree)}

solutions_call ==
    /\ pc = "done"
    /\ result.some
    /\ sols' = solutions(result.tree)
    /\ pc' = "solved"
    /\ UNCHANGED <<rules, goal, maxdepth, grounded, stack, result, auxCtr, prfs,
                   non_resolver_vars>>

----------------------------------------------------------------------------
(* proofs (sld.rs, lines 353 to 477).                                      *)

PathNode(resolvent, applied, selected, renaming) ==
    [resolvent |-> resolvent, applied |-> applied, selected |-> selected,
     renaming |-> renaming]

Path(nodes, val) == [nodes |-> nodes, val |-> val]

(* A HashMap is iterated in an arbitrary order: every order of the keys.   *)
Orders(S) ==
    {f \in [1..Cardinality(S) -> S] : \A i, j \in 1..Cardinality(S) : f[i] = f[j] => i = j}

(* flatten_compose: the set of path vectors the call may return, one for   *)
(* each iteration order of the resolvents maps.                            *)
RECURSIVE flatten_compose(_, _, _, _, _)
RECURSIVE flatten_keys(_, _, _, _)
flatten_keys(tree, node, mgu, ord) ==
    IF ord = <<>> THEN {<<>>}
    ELSE LET k == Head(ord)
             e == tree.resolvents[k]
             subs == flatten_compose(k[1], k[2], e.mgu, e.renaming, e.tree)
             lift(ps) == [i \in DOMAIN ps |->
                            Path(<<node>> \o ps[i].nodes,
                                 compose_extend(mgu, ps[i].val))]
         IN  {lift(ps) \o rest :
                 ps \in subs, rest \in flatten_keys(tree, node, mgu, Tail(ord))}

flatten_compose(lid, cid, mgu, renaming, tree) ==
    LET node == PathNode(tree.goal, cid, lid, renaming)
    IN  IF tree.goal = <<>> THEN {<<Path(<<node>>, mgu)>>}
        ELSE UNION {flatten_keys(tree, node, mgu, ord) :
                        ord \in Orders(DOMAIN tree.resolvents)}

Proof(clause, valuation, children, fault) ==
    [clause |-> clause, valuation |-> valuation, children |-> children,
     fault |-> fault]

(* A failed assertion, index or unwrap of proof_for_level. *)
FaultProof == Proof(QueryId, EmptySubstitution, <<>>, TRUE)

(* The number of children the assertions of proof_for_level expect.        *)
expected_children(applied, path, rs) ==
    IF applied.kind = "Query" THEN Len(path[1].resolvent)
    ELSE IF applied.kind = "Rule" THEN Len(rs[applied.rid + 1].body)
    ELSE 0

(* The valuation of a proof node (sld.rs, line 436), and one that forgets  *)
(* the global mgu.                                                         *)
valuation_without_mgu(renaming, mgu) == renaming

valuation(renaming, mgu) == compose_no_extend(renaming, mgu)

(* proof_for_level: path[l] of the code is path[l + 1] here.               *)
RECURSIVE proof_for_level(_, _, _, _)
proof_for_level(path, mgu, rs, level) ==
    LET n == Len(path)
        nonempty == {l \in 0..(n - 1) : path[l + 1].resolvent # <<>>}
        index_fault ==
            \E l \in nonempty :
                l + 1 >= n \/ path[l + 2].selected >= Len(path[l + 1].resolvent)
        resolved_child(l) == path[l + 1].resolvent[path[l + 2].selected + 1]
        hits == {l \in nonempty : resolved_child(l).introduction = level}
        keys == {resolved_child(l).origin.body_index : l \in hits}
        last(k) == CHOOSE l \in hits :
                      /\ resolved_child(l).origin.body_index = k
                      /\ \A m \in hits :
                            resolved_child(m).origin.body_index = k => m <= l
        sublevels_map == [k \in keys |-> last(k) + 1]
        children_length == Cardinality(keys)
    IN  IF index_fault \/ level >= n THEN FaultProof
        ELSE IF children_length # expected_children(path[level + 1].applied, path, rs)
        THEN FaultProof
        ELSE IF \E k \in keys : ~(k < children_length) THEN FaultProof
        ELSE IF \E k \in keys : sublevels_map[k] <= level THEN FaultProof
        ELSE LET children == [i \in 1..children_length |->
                                proof_for_level(path, mgu, rs, sublevels_map[i - 1])]
             IN  Proof(path[level + 1].applied,
                       valuation(path[level + 1].renaming, mgu),
                       children,
                       \E i \in 1..children_length : children[i].fault)

goal_id_renaming(g) == [v \in GoalVariables(g) |-> v]

(* A loop that keeps every proof. *)
keep_all(all_proofs, g, i, computed, kept) == all_proofs

(* The loop that keeps the first proof of each solution. *)
RECURSIVE keep_first(_, _, _, _, _)
keep_first(all_proofs, g, i, computed, kept) ==
    IF i > Len(all_proofs) THEN kept
    ELSE LET solution == SubstituteGoal(g, all_proofs[i].valuation)
         IN  IF solution \in computed
             THEN keep_first(all_proofs, g, i + 1, computed, kept)
             ELSE keep_first(all_proofs, g, i + 1, computed \cup {solution},
                             Append(kept, all_proofs[i]))

proofs(paths, rs, g) ==
    LET all_proofs == [i \in DOMAIN paths |->
                          proof_for_level(paths[i].nodes, paths[i].val, rs, 0)]
    IN  IF \E i \in DOMAIN paths : all_proofs[i].fault
        THEN [fault |-> TRUE, list |-> <<>>]
        ELSE [fault |-> FALSE, list |-> keep_first(all_proofs, g, 1, {}, <<>>)]

proofs_call ==
    /\ pc = "solved"
    /\ \E paths \in flatten_compose(0, QueryId, EmptySubstitution,
                                    goal_id_renaming(goal), result.tree) :
          prfs' = proofs(paths, rules, goal)
    /\ pc' = "proved"
    /\ UNCHANGED <<rules, goal, maxdepth, grounded, stack, result, auxCtr, sols,
                   non_resolver_vars>>

----------------------------------------------------------------------------
(* The surface-to-IR translator (src/src/modusfile.rs).                    *)

(* The width of the fresh-predicate counter.  A value of the counter is    *)
(* the pair <<high half, low half>> of its bits.                           *)
AtomicU32Bits == 32

Half == 2 ^ (AtomicU32Bits \div 2)

U32Zero == <<0, 0>>

U32Max == <<Half - 1, Half - 1>>

(* A variant of wrapping_add: the value stays as it is.                    *)
wrapping_add_stuck(c) == c

(* AtomicU32::fetch_add(1): the addition wraps around on overflow.         *)
wrapping_add(c) ==
    IF c[2] = Half - 1 THEN <<(c[1] + 1) % Half, 0>> ELSE <<c[1], c[2] + 1>>

fetch_add(c) == [prev |-> c, next |-> wrapping_add(c)]

(* The order of counter values, and the decimal text of one.               *)
U32Less(c, d) == c[1] < d[1] \/ (c[1] = d[1] /\ c[2] < d[2])

RECURSIVE format_u32(_)
format_u32(c) ==
    LET r == (c[1] % 10) * Half + c[2]
        q == <<c[1] \div 10, r \div 10>>
    IN  (IF q = U32Zero THEN "" ELSE format_u32(q)) \o ToString(r % 10)

replaced(n) == "__replaced" \o format_u32(n)

ExprLiteral(l) == [k |-> "Literal", lit |-> l, exprs |-> <<>>]

OperatorApplication(expr, op) ==
    [k |-> "OperatorApplication", lit |-> op, exprs |-> <<expr>>]

ConjunctionList(exprs) == [k |-> "ConjunctionList", lit |-> NoLiteral, exprs |-> exprs]

DisjunctionList(exprs) == [k |-> "DisjunctionList", lit |-> NoLiteral, exprs |-> exprs]

NoBody == [some |-> FALSE, expr |-> ExprLiteral(NoLiteral)]

SomeBody(expr) == [some |-> TRUE, expr |-> expr]

ModusClause(head, body) == [head |-> head, body |-> body]

(* Expression::prune *)
(* A pruning that leaves the expression under an operator as it is. *)
RECURSIVE prune_skipping_operators(_)
prune_skipping_operators(e) ==
    IF e.k \in {"ConjunctionList", "DisjunctionList"}
    THEN LET pruned == [i \in DOMAIN e.exprs |-> prune_skipping_operators(e.exprs[i])]
         IN  IF Len(pruned) = 1 THEN pruned[1]
             ELSE [k |-> e.k, lit |-> e.lit, exprs |-> pruned]
    ELSE e

RECURSIVE prune(_)
prune(e) ==
    IF e.k \in {"ConjunctionList", "DisjunctionList"}
    THEN LET pruned == [i \in DOMAIN e.exprs |-> prune(e.exprs[i])]
         IN  IF Len(pruned) = 1 THEN pruned[1]
             ELSE [k |-> e.k, lit |-> e.lit, exprs |-> pruned]
    ELSE IF e.k = "OperatorApplication"
    THEN OperatorApplication(prune(e.exprs[1]), e.lit)
    ELSE e

(* A variant of conj_literal: the literal is put before the others.        *)
conj_literal_reversed(curr_literals, l) == <<l>> \o curr_literals

(* curr_literals.push(l.clone()) *)
conj_literal(curr_literals, l) == Append(curr_literals, l)

(* A variant of disj_literal: the clause of a literal branch loses its body.*)
disj_literal_fact(head, l) == Clause(head, <<>>)

(* The clause of a branch of a disjunction that is a literal.              *)
disj_literal(head, l) == Clause(head, <<l>>)

(* A variant of operator_body: the expression is wrapped in a conjunction. *)
operator_body_wrapped(e) == ConjunctionList(e.exprs)

(* The body that takes the place of an operator application: the           *)
(* expression the operator is applied to.                                  *)
operator_body(e) == e.exprs[1]

(* From<&ModusClause> for Vec<logic::Clause>.  names holds the values the  *)
(* calls of fetch_add return, in the order of the calls; the result holds  *)
(* the clauses and the values not used.                                    *)
RECURSIVE from(_, _)
RECURSIVE from_conjunction(_, _, _, _, _)
RECURSIVE from_disjunction(_, _, _, _)
from(modus_clause, names) ==
    IF ~modus_clause.body.some
    THEN [clauses |-> <<Clause(modus_clause.head, <<>>)>>, names |-> names]
    ELSE LET e == modus_clause.body.expr
         IN  IF e.k = "Literal"
             THEN [clauses |-> <<Clause(modus_clause.head, <<e.lit>>)>>, names |-> names]
             ELSE IF e.k = "OperatorApplication"
             THEN from(ModusClause(modus_clause.head, SomeBody(operator_body(e))), names)
             ELSE IF e.k = "ConjunctionList"
             THEN from_conjunction(modus_clause.head, e.exprs, names, <<>>, <<>>)
             ELSE from_disjunction(modus_clause.head, e.exprs, names, <<>>)

(* A variant of the conjunction arm that emits the clause of the surface   *)
(* head before the clauses of the auxiliary predicates.                    *)
RECURSIVE from_conjunction_head_first(_, _, _, _, _)
from_conjunction_head_first(head, exprs, names, curr_literals, clauses) ==
    IF exprs = <<>>
    THEN [clauses |-> <<Clause(head, curr_literals)>> \o clauses, names |-> names]
    ELSE LET expr == Head(exprs)
         IN  IF expr.k = "Literal"
             THEN from_conjunction_head_first(head, Tail(exprs), names,
                                              conj_literal(curr_literals, expr.lit),
                                              clauses)
             ELSE LET new_literal == Literal(replaced(Head(names)), <<>>)
                      sub == from(ModusClause(new_literal, SomeBody(expr)), Tail(names))
                  IN  from_conjunction_head_first(head, Tail(exprs), sub.names,
                                                  Append(curr_literals, new_literal),
                                                  clauses \o sub.clauses)

from_conjunction(head, exprs, names, curr_literals, clauses) ==
    IF exprs = <<>>
    THEN [clauses |-> Append(clauses, Clause(head, curr_literals)), names |-> names]
    ELSE LET expr == Head(exprs)
         IN  IF expr.k = "Literal"
             THEN from_conjunction(head, Tail(exprs), names,
                                   conj_literal(curr_literals, expr.lit), clauses)
             ELSE LET new_literal == Literal(replaced(Head(names)), <<>>)
                      sub == from(ModusClause(new_literal, SomeBody(expr)), Tail(names))
                  IN  from_conjunction(head, Tail(exprs), sub.names,
                                       Append(curr_literals, new_literal),
                                       clauses \o sub.clauses)

from_disjunction(head, exprs, names, clauses) ==
    IF exprs = <<>> THEN [clauses |-> clauses, names |-> names]
    ELSE LET expr == Head(exprs)
         IN  IF expr.k = "Literal"
             THEN from_disjunction(head, Tail(exprs), names,
                                   Append(clauses, disj_literal(head, expr.lit)))
             ELSE LET new_literal == Literal(replaced(Head(names)), <<>>)
                      sub == from(ModusClause(new_literal, SomeBody(expr)), Tail(names))
                  IN  from_disjunction(head, Tail(exprs), sub.names,
                                       Append(clauses, Clause(head, <<new_literal>>))
                                       \o sub.clauses)

(* The number of nodes of an expression, and the number of calls of        *)
(* fetch_add the translation of a clause makes.                            *)
RECURSIVE size(_)
RECURSIVE sizes(_)
size(e) == 1 + sizes(e.exprs)
sizes(es) == IF es = <<>> THEN 0 ELSE size(Head(es)) + sizes(Tail(es))

fetch_count(modus_clause) ==
    IF ~modus_clause.body.some THEN 0
    ELSE LET supply == [i \in 1..size(modus_clause.body.expr) |-> U32Zero]
         IN  Len(supply) - Len(from(modus_clause, supply).names)

(* A thread of the process translating a program clause by clause: the     *)
(* clauses still to translate, the counter values fetched for the first of *)
(* them, and the Horn clauses emitted.                                     *)
Thread(program) ==
    [program |-> program, todo |-> program, names |-> <<>>, clauses |-> <<>>]

(* One call of AVAILABLE_LITERAL_INDEX.fetch_add(1, SeqCst) by a thread.   *)
literal_index_fetch_add ==
    \E t \in DOMAIN threads :
        /\ threads[t].todo # <<>>
        /\ Len(threads[t].names) < fetch_count(Head(threads[t].todo))
        /\ LET f == fetch_add(AVAILABLE_LITERAL_INDEX)
           IN  /\ AVAILABLE_LITERAL_INDEX' = f.next
               /\ threads' = [threads EXCEPT ![t].names = Append(@, f.prev)]
               /\ issued' = Append(issued, f.prev)
        /\ UNCHANGED <<index_at_start, parser_vars, reporting_vars, surface_vars, frontend_vars>>
        /\ UNCHANGED <<rules, goal, maxdepth, grounded, stack, result, pc, auxCtr,
                       sols, prfs>>

(* The return of from: the clauses of the first clause to translate.       *)
from_return ==
    \E t \in DOMAIN threads :
        /\ threads[t].todo # <<>>
        /\ Len(threads[t].names) = fetch_count(Head(threads[t].todo))
        /\ threads' = [threads EXCEPT
                          ![t].clauses = @ \o from(Head(threads[t].todo),
                                                   threads[t].names).clauses,
                          ![t].todo = Tail(@),
                          ![t].names = <<>>]
        /\ UNCHANGED <<rules, goal, maxdepth, grounded, stack, result, pc, auxCtr,
                       sols, prfs, AVAILABLE_LITERAL_INDEX, issued, index_at_start,
                       parser_vars, reporting_vars, surface_vars, frontend_vars>>

TranslatorIdle ==
    /\ AVAILABLE_LITERAL_INDEX = U32Zero
    /\ threads = <<>>
    /\ issued = <<>>
    /\ index_at_start = U32Zero

----------------------------------------------------------------------------
(* The parser of string constants (src/src/modusfile.rs, mod parser).  A   *)
(* text is a sequence of characters.                                       *)

(* The name made of a sequence of characters. *)
RECURSIVE Joined(_)
Joined(cs) == IF cs = <<>> THEN "" ELSE Head(cs) \o Joined(Tail(cs))

bs == "\\"
dq == "\""
nl == "\n"
NUL == "NUL"

(* char::is_whitespace: the characters of the Unicode property White_Space. *)
(* U+0009 to U+000D and U+0020, then U+0085, U+00A0 and U+1680 as they     *)
(* are, and the characters from U+2000 on, which a string here cannot      *)
(* hold, by their code points.                                             *)
WhiteSpace ==
    {"\t", "\n", "", "\f", "\r", " ", "", " ", " ",
     "U+2000", "U+2001", "U+2002", "U+2003", "U+2004", "U+2005", "U+2006",
     "U+2007", "U+2008", "U+2009", "U+200A", "U+2028", "U+2029", "U+202F",
     "U+205F", "U+3000"}

is_whitespace(ch) == ch \in WhiteSpace

(* The first index from i on whose character is no whitespace. *)
RECURSIVE skip_whitespace(_, _)
skip_whitespace(s, i) ==
    IF i <= Len(s) /\ is_whitespace(s[i]) THEN skip_whitespace(s, i + 1) ELSE i

(* process_raw_string: the loop over the characters, from index i, with    *)
(* the text produced so far.                                               *)
RECURSIVE process_raw_chars(_, _, _)
process_raw_chars(s, i, processed) ==
    IF i > Len(s) THEN [panic |-> FALSE, s |-> processed]
    ELSE IF s[i] # bs THEN process_raw_chars(s, i + 1, Append(processed, s[i]))
    ELSE IF i + 1 > Len(s) THEN [panic |-> TRUE, s |-> <<>>]
    ELSE LET ch == s[i + 1]
         IN  IF ch = dq THEN process_raw_chars(s, i + 2, Append(processed, dq))
             ELSE IF ch = bs THEN process_raw_chars(s, i + 2, Append(processed, bs))
             ELSE IF ch = "n" THEN process_raw_chars(s, i + 2, Append(processed, "\n"))
             ELSE IF ch = "r" THEN process_raw_chars(s, i + 2, Append(processed, "\r"))
             ELSE IF ch = "t" THEN process_raw_chars(s, i + 2, Append(processed, "\t"))
             ELSE IF ch = "0" THEN process_raw_chars(s, i + 2, Append(processed, NUL))
             ELSE IF ch = "\n"
             THEN process_raw_chars(s, skip_whitespace(s, i + 2), processed)
             ELSE process_raw_chars(s, i + 2, processed \o <<bs, ch>>)

process_raw_string(s) == process_raw_chars(s, 1, <<>>)

(* alt((tag("\\\""), is_not("\""))) applied at index i: the index after    *)
(* the match, or i when neither matches.                                   *)
RECURSIVE is_not_quote(_, _)
is_not_quote(s, i) ==
    IF i <= Len(s) /\ s[i] # dq THEN is_not_quote(s, i + 1) ELSE i

escaped_quote_or_not_quote(s, i) ==
    IF i + 1 <= Len(s) /\ s[i] = bs /\ s[i + 1] = dq THEN i + 2
    ELSE is_not_quote(s, i)

(* recognize(fold_many0(..)): the index after the last match.              *)
RECURSIVE fold_many0(_, _)
fold_many0(s, i) ==
    LET j == escaped_quote_or_not_quote(s, i)
    IN  IF j = i THEN i ELSE fold_many0(s, j)

Ok(rest, value) == [kind |-> "Ok", rest |-> rest, value |-> value]
Err(kind) == [kind |-> kind, rest |-> <<>>, value |-> <<>>]

(* string_content, applied to the text from index i on.                    *)
string_content(s, i) ==
    LET j == fold_many0(s, i)
        p == process_raw_string(SubSeq(s, i, j - 1))
    IN  IF p.panic THEN Err("panic") ELSE Ok(SubSeq(s, j, Len(s)), p.s)

(* modus_const: delimited(alt((tag("\""), tag("f\""))), string_content,    *)
(* cut(tag("\""))).                                                        *)
modus_const(s) ==
    LET start == IF Len(s) >= 1 /\ s[1] = dq THEN 2
                 ELSE IF Len(s) >= 2 /\ s[1] = "f" /\ s[2] = dq THEN 3
                 ELSE 0
    IN  IF start = 0 THEN Err("Error")
        ELSE LET c == string_content(s, start)
             IN  IF c.kind # "Ok" THEN c
                 ELSE IF c.rest # <<>> /\ c.rest[1] = dq THEN Ok(Tail(c.rest), c.value)
                 ELSE Err("Failure")

(* The result of a parser applied at index i of a text: the index after    *)
(* the match and the value, or the kind of error.                          *)
Parsed(pos, value) == [kind |-> "Ok", pos |-> pos, value |-> value]
Failed(kind, pos) == [kind |-> kind, pos |-> pos, value |-> <<>>]

(* nom's cut: an Error becomes a Failure. *)
cut(r) == IF r.kind = "Error" THEN Failed("Failure", r.pos) ELSE r

tag(s, i, t) ==
    IF i + Len(t) - 1 <= Len(s) /\ SubSeq(s, i, i + Len(t) - 1) = t
    THEN Parsed(i + Len(t), t) ELSE Failed("Error", i)

RECURSIVE space0(_, _)
space0(s, i) ==
    IF i <= Len(s) /\ s[i] \in {" ", "\t"} THEN space0(s, i + 1) ELSE i

RECURSIVE multispace0(_, _)
multispace0(s, i) ==
    IF i <= Len(s) /\ s[i] \in {" ", "\t", "\n", "\r"} THEN multispace0(s, i + 1) ELSE i

(* nom's not_line_ending at index i, the text read so far in acc: up to   *)
(* the first "\r" or "\n", or to the end of the text when there is none;   *)
(* a "\r" that no "\n" follows is an Error.                                *)
RECURSIVE not_line_ending(_, _, _)
not_line_ending(s, i, acc) ==
    IF i > Len(s) \/ s[i] = "\n" THEN Parsed(i, acc)
    ELSE IF s[i] = "\r"
    THEN IF i + 1 <= Len(s) /\ s[i + 1] = "\n" THEN Parsed(i, acc)
         ELSE Failed("Error", i)
    ELSE not_line_ending(s, i + 1, Append(acc, s[i]))

(* nom's line_ending: "\n" or "\r\n". *)
line_ending(s, i) ==
    IF i <= Len(s) /\ s[i] = "\n" THEN Parsed(i + 1, <<"\n">>)
    ELSE IF i + 1 <= Len(s) /\ s[i] = "\r" /\ s[i + 1] = "\n"
    THEN Parsed(i + 2, <<"\r", "\n">>)
    ELSE Failed("Error", i)

(* nom's eof *)
eof(s, i) == IF i > Len(s) THEN Parsed(i, <<>>) ELSE Failed("Error", i)

(* The ? of Rust and the sequencing of nom: the result x is computed once  *)
(* and handed to what follows.                                             *)
and_then(x, F(_)) == CHOOSE y \in {F(r) : r \in {x}} : TRUE

(* parser::comment: delimited(tag("#"), not_line_ending, line_ending).     *)
comment(s, i) ==
    and_then(tag(s, i, <<"#">>), LAMBDA hash :
        IF hash.kind # "Ok" THEN hash
        ELSE and_then(not_line_ending(s, hash.pos, <<>>), LAMBDA line :
        IF line.kind # "Ok" THEN line
        ELSE and_then(line_ending(s, line.pos), LAMBDA ending :
        IF ending.kind # "Ok" THEN ending
        ELSE Parsed(ending.pos, line.value))))

(* The loop of nom's separated_list0(multispace0, comment), i the index    *)
(* after the last comment: a separator that matches no character is an     *)
(* Error of the whole list; with no comment after the separator the list   *)
(* ends before the separator.                                              *)
RECURSIVE separated_list0(_, _, _)
separated_list0(s, i, res) ==
    IF multispace0(s, i) = i THEN Failed("Error", i)
    ELSE and_then(comment(s, multispace0(s, i)), LAMBDA c :
             IF c.kind # "Ok" THEN Parsed(i, res)
             ELSE separated_list0(s, c.pos, Append(res, c.value)))

(* parser::comments: delimited(multispace0,                                *)
(* separated_list0(multispace0, comment), multispace0).                    *)
comments(s, i) ==
    and_then(comment(s, multispace0(s, i)), LAMBDA first :
        IF first.kind # "Ok" THEN Parsed(multispace0(s, multispace0(s, i)), <<>>)
        ELSE and_then(separated_list0(s, first.pos, <<first.value>>), LAMBDA list :
                 IF list.kind # "Ok" THEN list
                 ELSE Parsed(multispace0(s, list.pos), list.value)))

(* The separators of parser::body: delimited(comments, tag(t), comments).  *)
separator(s, i, t) ==
    and_then(comments(s, i), LAMBDA before :
        IF before.kind # "Ok" THEN before
        ELSE and_then(tag(s, before.pos, t), LAMBDA sep :
        IF sep.kind # "Ok" THEN sep
        ELSE and_then(comments(s, sep.pos), LAMBDA after :
        IF after.kind # "Ok" THEN after
        ELSE Parsed(after.pos, t))))

Alpha ==
    {"a", "b", "c", "d", "e", "f", "g", "h", "i", "j", "k", "l", "m", "n", "o", "p",
     "q", "r", "s", "t", "u", "v", "w", "x", "y", "z", "A", "B", "C", "D", "E", "F",
     "G", "H", "I", "J", "K", "L", "M", "N", "O", "P", "Q", "R", "S", "T", "U", "V",
     "W", "X", "Y", "Z"}

Digit == {"0", "1", "2", "3", "4", "5", "6", "7", "8", "9"}

RECURSIVE identifier_end(_, _)
identifier_end(s, i) ==
    IF i <= Len(s) /\ s[i] \in Alpha \cup Digit \cup {"_"}
    THEN identifier_end(s, i + 1) ELSE i

(* logic::parser::literal_identifier: a letter, then letters, digits and   *)
(* underscores.                                                            *)
literal_identifier(s, i) ==
    IF i <= Len(s) /\ s[i] \in Alpha
    THEN Parsed(identifier_end(s, i + 1), SubSeq(s, i, identifier_end(s, i + 1) - 1))
    ELSE Failed("Error", i)

(* An argument of a literal: alt((modus_const, modus_var)). *)
term(s, i) ==
    and_then(modus_const(SubSeq(s, i, Len(s))), LAMBDA c :
        IF c.kind = "Ok" THEN Parsed(Len(s) - Len(c.rest) + 1, Constant(c.value))
        ELSE IF c.kind # "Error" THEN Failed(c.kind, i)
        ELSE and_then(literal_identifier(s, i), LAMBDA v :
                 IF v.kind = "Ok" THEN Parsed(v.pos, UserVariable(v.value)) ELSE v))

(* separated_list1 over the arguments, i the index after the last one.     *)
RECURSIVE more_terms(_, _, _)
more_terms(s, i, acc) ==
    and_then(tag(s, space0(s, i), <<",">>), LAMBDA sep :
        IF sep.kind # "Ok" THEN Parsed(i, acc)
        ELSE and_then(term(s, space0(s, sep.pos)), LAMBDA t :
                 IF t.kind = "Error" THEN Parsed(i, acc)
                 ELSE IF t.kind # "Ok" THEN t
                 ELSE more_terms(s, t.pos, Append(acc, t.value))))

(* logic::parser::literal(modus_const, modus_var): a name and, optional,   *)
(* its arguments in parentheses.                                           *)
literal(s, i) ==
    and_then(literal_identifier(s, i), LAMBDA id :
        IF id.kind # "Ok" THEN id
        ELSE and_then(tag(s, id.pos, <<"(">>), LAMBDA open :
        IF open.kind # "Ok" THEN Parsed(id.pos, Literal(Joined(id.value), <<>>))
        ELSE and_then(term(s, space0(s, open.pos)), LAMBDA first :
        IF first.kind = "Error" THEN Parsed(id.pos, Literal(Joined(id.value), <<>>))
        ELSE IF first.kind # "Ok" THEN first
        ELSE and_then(more_terms(s, first.pos, <<first.value>>), LAMBDA args :
        IF args.kind # "Ok" THEN args
        ELSE and_then(cut(tag(s, space0(s, args.pos), <<")">>)), LAMBDA close :
        IF close.kind # "Ok" THEN close
        ELSE Parsed(close.pos, Literal(Joined(id.value), args.value)))))))

(* parser::body and parser::expression_inner.  comma_separated and         *)
(* semi_separated are the two separated_list1 of body, each with the       *)
(* index after its last element and the elements so far.                   *)
RECURSIVE body(_, _)
RECURSIVE expression_inner(_, _)
RECURSIVE comma_separated(_, _, _)
RECURSIVE comma_separated_exprs(_, _)
RECURSIVE semi_separated(_, _, _)

(* alt((lit_parser, op_application_parser, parenthesized_expr)) *)
expression_inner(s, i) ==
    and_then(literal(s, i), LAMBDA lit :
        IF lit.kind = "Ok" THEN Parsed(lit.pos, ExprLiteral(lit.value))
        ELSE IF lit.kind # "Error" THEN lit
        ELSE and_then(tag(s, i, <<"(">>), LAMBDA open :
        IF open.kind # "Ok" THEN open
        ELSE and_then(body(s, open.pos), LAMBDA inner :
        IF inner.kind # "Ok" THEN inner
        ELSE and_then(cut(tag(s, inner.pos, <<")">>)), LAMBDA close :
        IF close.kind # "Ok" THEN close
        ELSE and_then(tag(s, close.pos, <<":", ":">>), LAMBDA colons :
        IF colons.kind # "Ok" THEN Parsed(close.pos, inner.value)
        ELSE and_then(cut(literal(s, colons.pos)), LAMBDA op :
        IF op.kind # "Ok" THEN op
        ELSE Parsed(op.pos, OperatorApplication(inner.value, op.value))))))))

comma_separated(s, i, acc) ==
    and_then(separator(s, i, <<",">>), LAMBDA sep :
        IF sep.kind # "Ok" THEN Parsed(i, acc)
        ELSE and_then(expression_inner(s, sep.pos), LAMBDA e :
                 IF e.kind = "Error" THEN Parsed(i, acc)
                 ELSE IF e.kind # "Ok" THEN e
                 ELSE comma_separated(s, e.pos, Append(acc, e.value))))

comma_separated_exprs(s, i) ==
    and_then(expression_inner(s, i), LAMBDA e :
        IF e.kind # "Ok" THEN e
        ELSE and_then(comma_separated(s, e.pos, <<e.value>>), LAMBDA es :
                 IF es.kind # "Ok" THEN es
                 ELSE Parsed(es.pos, ConjunctionList(es.value))))

semi_separated(s, i, acc) ==
    and_then(separator(s, i, <<";">>), LAMBDA sep :
        IF sep.kind # "Ok" THEN Parsed(i, acc)
        ELSE and_then(comma_separated_exprs(s, sep.pos), LAMBDA e :
                 IF e.kind = "Error" THEN Parsed(i, acc)
                 ELSE IF e.kind # "Ok" THEN e
                 ELSE semi_separated(s, e.pos, Append(acc, e.value))))

body(s, i) ==
    and_then(comments(s, i), LAMBDA before :
        IF before.kind # "Ok" THEN before
        ELSE and_then(comma_separated_exprs(s, before.pos), LAMBDA e :
        IF e.kind # "Ok" THEN e
        ELSE and_then(semi_separated(s, e.pos, <<e.value>>), LAMBDA es :
        IF es.kind # "Ok" THEN es
        ELSE Parsed(es.pos, prune(DisjunctionList(es.value))))))

(* parser::fact: terminated(head, tag(".")).                               *)
fact(s, i) ==
    and_then(literal(s, i), LAMBDA h :
        IF h.kind # "Ok" THEN h
        ELSE and_then(tag(s, h.pos, <<".">>), LAMBDA dot :
                 IF dot.kind # "Ok" THEN dot
                 ELSE Parsed(dot.pos, ModusClause(h.value, NoBody))))

(* parser::rule *)
rule(s, i) ==
    and_then(literal(s, i), LAMBDA h :
        IF h.kind # "Ok" THEN h
        ELSE and_then(tag(s, space0(s, h.pos), <<":", "-">>), LAMBDA sep :
        IF sep.kind # "Ok" THEN sep
        ELSE and_then(cut(body(s, multispace0(s, sep.pos))), LAMBDA b :
        IF b.kind # "Ok" THEN b
        ELSE and_then(cut(tag(s, b.pos, <<".">>)), LAMBDA dot :
        IF dot.kind # "Ok" THEN dot
        ELSE Parsed(dot.pos, ModusClause(h.value, SomeBody(b.value)))))))

(* parser::modus_clause: alt((fact, rule)). *)
modus_clause(s, i) ==
    and_then(fact(s, i), LAMBDA f : IF f.kind = "Error" THEN rule(s, i) ELSE f)

(* FromStr for ModusClause: what is left of the text is not looked at.     *)
modus_clause_from_str(s) ==
    and_then(modus_clause(s, 1), LAMBDA r :
        IF r.kind = "Ok" THEN Ok(<<>>, r.value) ELSE Err(r.kind))

(* nom's space1: one or more of space and tab. *)
space1(s, i) ==
    IF space0(s, i) > i THEN Parsed(space0(s, i), SubSeq(s, i, space0(s, i) - 1))
    ELSE Failed("Error", i)

(* dockerfile::parser::ignored_line, whose file is not among the sources:  *)
(* taken as a line that holds a comment only (blanks, a #, the rest of the *)
(* line, then the line ending or the end of the text) or an empty line     *)
(* (blanks and a line ending, or one or more blanks at the end of the      *)
(* text).                                                                  *)
ignored_line(s, i) ==
    and_then(tag(s, space0(s, i), <<"#">>), LAMBDA hash :
        IF hash.kind = "Ok"
        THEN and_then(not_line_ending(s, hash.pos, <<>>), LAMBDA line :
                 IF line.kind # "Ok" THEN Failed("Error", i)
                 ELSE IF line.pos > Len(s) THEN Parsed(line.pos, <<>>)
                 ELSE line_ending(s, line.pos))
        ELSE and_then(line_ending(s, space0(s, i)), LAMBDA ending :
                 IF ending.kind = "Ok" THEN ending
                 ELSE and_then(space1(s, i), LAMBDA blanks :
                          IF blanks.kind # "Ok" THEN blanks
                          ELSE IF eof(s, blanks.pos).kind = "Ok" THEN blanks
                          ELSE Failed("Error", i))))

(* many0(dockerfile::parser::ignored_line): the index after the last       *)
(* ignored line.  Each ignored line takes a character at least.            *)
RECURSIVE ignored_lines(_, _)
ignored_lines(s, i) ==
    and_then(ignored_line(s, i), LAMBDA l :
        IF l.kind # "Ok" THEN i ELSE ignored_lines(s, l.pos))

(* parser::modusfile: many0 of the clauses, each after its ignored lines,  *)
(* then ignored lines and the end of the text.                             *)
RECURSIVE modusfile(_, _, _)
modusfile(s, i, acc) ==
    and_then(modus_clause(s, ignored_lines(s, i)), LAMBDA c :
        IF c.kind = "Ok" THEN modusfile(s, c.pos, Append(acc, c.value))
        ELSE IF c.kind # "Error" THEN c
        ELSE and_then(eof(s, ignored_lines(s, i)), LAMBDA end :
                 IF end.kind # "Ok" THEN end ELSE Parsed(end.pos, acc)))

(* Modusfile::from_str: parser::modusfile, then the match on its result.   *)
from_str(s) ==
    and_then(modusfile(s, 1, <<>>), LAMBDA f :
        IF f.kind = "panic" THEN Err("panic")
        ELSE IF f.kind = "Ok" THEN Ok(<<>>, f.value)
        ELSE Err("Err"))

NotCalled == Err("none")

modus_const_call ==
    /\ input # <<>>
    /\ const_result = NotCalled
    /\ const_result' = modus_const(input)
    /\ UNCHANGED <<rules, goal, maxdepth, grounded, stack, result, pc, auxCtr,
                   sols, prfs, translator_vars, input, file_result,
                   reporting_vars, surface_vars, frontend_vars>>

from_str_call ==
    /\ input # <<>>
    /\ file_result = NotCalled
    /\ file_result' = from_str(<<"a", "(">> \o input \o <<")", ".">>)
    /\ UNCHANGED <<rules, goal, maxdepth, grounded, stack, result, pc, auxCtr,
                   sols, prfs, translator_vars, input, const_result,
                   reporting_vars, surface_vars, frontend_vars>>

ParserIdle ==
    /\ input = <<>>
    /\ const_result = NotCalled
    /\ file_result = NotCalled

----------------------------------------------------------------------------
(* Display of the surface syntax (src/src/modusfile.rs, lines 199 to 253), *)
(* and the steps from a surface clause to its text and back.               *)

(* The characters of a predicate name. *)
Identifiers ==
    {<<"f", "o", "o">>, <<"b", "a", "r">>, <<"a">>, <<"b">>, <<"c">>,
     <<"m", "e", "r", "g", "e">>}

Chars(p) == CHOOSE cs \in Identifiers : Joined(cs) = p

RECURSIVE join(_, _)
join(strs, sep) ==
    IF strs = <<>> THEN <<>>
    ELSE IF Len(strs) = 1 THEN strs[1]
    ELSE strs[1] \o sep \o join(Tail(strs), sep)

(* Display of a term and of a literal (logic IR). *)
term_to_string(t) == IF IsConstant(t) THEN <<dq>> \o t.s \o <<dq>> ELSE t.s

literal_to_string(l) ==
    Chars(l.predicate)
    \o (IF l.args = <<>> THEN <<>>
        ELSE <<"(">> \o join([i \in DOMAIN l.args |-> term_to_string(l.args[i])],
                             <<",", " ">>) \o <<")">>)

(* impl Display for Expression *)
RECURSIVE expression_to_string(_)
expression_to_string(e) ==
    IF e.k = "OperatorApplication"
    THEN <<"(">> \o expression_to_string(e.exprs[1]) \o <<")", ":", ":">>
         \o literal_to_string(e.lit)
    ELSE IF e.k = "Literal" THEN literal_to_string(e.lit)
    ELSE IF e.k = "ConjunctionList"
    THEN join([i \in DOMAIN e.exprs |-> expression_to_string(e.exprs[i])], <<",", " ">>)
    ELSE join([i \in DOMAIN e.exprs |-> expression_to_string(e.exprs[i])], <<";", " ">>)

(* impl Display for ModusClause *)
clause_to_string(mc) ==
    IF mc.body.some
    THEN literal_to_string(mc.head) \o <<" ", ":", "-", " ">>
         \o expression_to_string(mc.body.expr) \o <<".">>
    ELSE literal_to_string(mc.head) \o <<".">>

NoClause == ModusClause(NoLiteral, NoBody)

(* The body of the surface clause is pruned. *)
prune_call ==
    /\ surface # NoClause
    /\ pruned_clause = NoClause
    /\ pruned_clause' =
          IF surface.body.some
          THEN ModusClause(surface.head, SomeBody(prune(surface.body.expr)))
          ELSE surface
    /\ UNCHANGED <<rules, goal, maxdepth, grounded, stack, result, pc, auxCtr,
                   sols, prfs, translator_vars, parser_vars, reporting_vars,
                   surface, text, reparsed, frontend_vars>>

(* The pruned clause is displayed. *)
to_string_call ==
    /\ pruned_clause # NoClause
    /\ text = <<>>
    /\ text' = clause_to_string(pruned_clause)
    /\ UNCHANGED <<rules, goal, maxdepth, grounded, stack, result, pc, auxCtr,
                   sols, prfs, translator_vars, parser_vars, reporting_vars,
                   surface, pruned_clause, reparsed, frontend_vars>>

(* The text is parsed as a clause. *)
modus_clause_from_str_call ==
    /\ text # <<>>
    /\ reparsed = NotCalled
    /\ reparsed' = modus_clause_from_str(text)
    /\ UNCHANGED <<rules, goal, maxdepth, grounded, stack, result, pc, auxCtr,
                   sols, prfs, translator_vars, parser_vars, reporting_vars,
                   surface, pruned_clause, text, frontend_vars>>

SurfaceIdle ==
    /\ surface = NoClause
    /\ pruned_clause = NoClause
    /\ text = <<>>
    /\ reparsed = NotCalled

----------------------------------------------------------------------------
(* Characters and bytes.  A byte below 0x80 is written as its ASCII        *)
(* character, a byte from 0x80 on as its two hexadecimal digits.           *)

(* str::chars of a string. *)
chars(p) == [i \in 1..Len(p) |-> SubSeq(p, i, i)]

(* The characters below U+0020, in the order of their code points.         *)
ControlChars ==
    <<NUL, "", "", "", "", "", "", "",
      "", "\t", "\n", "", "\f", "\r", "", "",
      "", "", "", "", "", "", "", "",
      "", "", "", "", "", "", "", "">>

HEX_DIGITS ==
    <<"0", "1", "2", "3", "4", "5", "6", "7", "8", "9", "a", "b", "c", "d", "e", "f">>

(* The code point of a character below U+0020. *)
byte_of(ch) == (CHOOSE c \in 1..Len(ControlChars) : ControlChars[c] = ch) - 1

(* The characters from U+0080 to U+00FF, in the order of their code points. *)
Latin1Supplement == " ¡¢£¤¥¦§¨©ª«¬­®¯°±²³´µ¶·¸¹º»¼½¾¿ÀÁÂÃÄÅÆÇÈÉÊËÌÍÎÏÐÑÒÓÔÕÖ×ØÙÚÛÜÝÞßàáâãäåæçèéêëìíîïðñòóôõö÷øùúûüýþÿ"

(* The characters beyond U+00FF that a text here can hold, with their code *)
(* points.                                                                 *)
NamedChars ==
    <<<<" ", 5760>>, <<"U+2000", 8192>>, <<"U+2001", 8193>>, <<"U+2002", 8194>>,
      <<"U+2003", 8195>>, <<"U+2004", 8196>>, <<"U+2005", 8197>>, <<"U+2006", 8198>>,
      <<"U+2007", 8199>>, <<"U+2008", 8200>>, <<"U+2009", 8201>>, <<"U+200A", 8202>>,
      <<"U+2028", 8232>>, <<"U+2029", 8233>>, <<"U+202F", 8239>>, <<"U+205F", 8287>>,
      <<"U+3000", 12288>>, <<"U+1F600", 128512>>>>

(* Whether a character lies beyond ASCII, and its code point then. *)
NonAscii ==
    {SubSeq(Latin1Supplement, i, i) : i \in 1..Len(Latin1Supplement)}
    \cup {NamedChars[i][1] : i \in 1..Len(NamedChars)}

is_ascii(ch) == ch \notin NonAscii

code_point(ch) ==
    IF \E i \in 1..Len(NamedChars) : NamedChars[i][1] = ch
    THEN NamedChars[CHOOSE i \in 1..Len(NamedChars) : NamedChars[i][1] = ch][2]
    ELSE 127 + (CHOOSE i \in 1..Len(Latin1Supplement) :
                    SubSeq(Latin1Supplement, i, i) = ch)

(* A byte from 0x80 on. *)
byte(n) == HEX_DIGITS[(n \div 16) + 1] \o HEX_DIGITS[(n % 16) + 1]

(* char::encode_utf8: one byte for an ASCII character, two, three or four  *)
(* bytes for a character beyond.                                           *)
encode_utf8(ch) ==
    IF is_ascii(ch) THEN <<ch>>
    ELSE IF code_point(ch) < 2048
    THEN <<byte(192 + (code_point(ch) \div 64)), byte(128 + (code_point(ch) % 64))>>
    ELSE IF code_point(ch) < 65536
    THEN <<byte(224 + (code_point(ch) \div 4096)),
           byte(128 + ((code_point(ch) \div 64) % 64)),
           byte(128 + (code_point(ch) % 64))>>
    ELSE <<byte(240 + (code_point(ch) \div 262144)),
           byte(128 + ((code_point(ch) \div 4096) % 64)),
           byte(128 + ((code_point(ch) \div 64) % 64)),
           byte(128 + (code_point(ch) % 64))>>

(* The bytes of a sequence of characters, and str::as_bytes of a string. *)
RECURSIVE utf8(_)
utf8(s) ==
    IF s = <<>> THEN <<>>
    ELSE IF Len(s) = 1 THEN encode_utf8(s[1])
    ELSE utf8(SubSeq(s, 1, Len(s) \div 2)) \o utf8(SubSeq(s, (Len(s) \div 2) + 1, Len(s)))

as_bytes(p) == utf8(chars(p))

----------------------------------------------------------------------------
(* The build plan handed to the image builder                              *)
(* (src/src/buildkit_frontend.rs, handle_build_plan, lines 141 to 339).    *)
(* A node id is an index into the vector of nodes, from 0.  The types of   *)
(* the image specification and of paths come from libraries; BuildPlan and *)
(* its topological order are in imagegen.rs and are written here from      *)
(* section 6 of the specification (the topological order is the order of   *)
(* the vector).  The function is asynchronous: it is suspended at every    *)
(* call of the bridge to the builder, which answers with a value or with   *)
(* an error; `awaiting` names the call it is suspended at.  A path is held *)
(* as a PathBuf, the String of a node as the path it denotes.              *)

Nothing == [some |-> FALSE]

Just(x) == [some |-> TRUE, v |-> x]

(* PathBuf: whether the path has a root, and its components. *)
PathBuf(root, comps) == [root |-> root, comps |-> comps]

has_root(x) == x.root

(* Path::join: a path with a root replaces the path it is joined to. *)
path_join(base, x) ==
    IF has_root(x) THEN x ELSE PathBuf(base.root, base.comps \o x.comps)

ImageConfig(user, env, entrypoint, working_dir, labels) ==
    [user |-> user, exposed_ports |-> Nothing, env |-> env,
     entrypoint |-> entrypoint, cmd |-> Nothing, volumes |-> Nothing,
     working_dir |-> working_dir, labels |-> labels, stop_signal |-> Nothing]

empty_image_config == ImageConfig(Nothing, Nothing, Nothing, Nothing, Nothing)

(* The image specification: the configuration, and the rest of it (the     *)
(* architecture, the system, the layers), which depends on the image only. *)
ImageSpecification(image_ref, config) == [image |-> image_ref, config |-> config]

get_cwd_from_image_spec(image_spec) ==
    IF image_spec.config.some /\ image_spec.config.v.working_dir.some
    THEN LET x == image_spec.config.v.working_dir.v
         IN  IF ~has_root(x) THEN path_join(PathBuf(TRUE, <<>>), x) ELSE x
    ELSE PathBuf(TRUE, <<>>)

(* Option::get_or_insert_with *)
get_or_insert_with(opt, default) == IF opt.some THEN opt.v ELSE default

(* BTreeMap::insert *)
btreemap_insert(m, key, value) ==
    [x \in DOMAIN m \cup {key} |-> IF x = key THEN value ELSE m[x]]

(* The build nodes. *)
BuildNode(k, image_ref, parent, src_image, text1, text2) ==
    [k |-> k, image_ref |-> image_ref, parent |-> parent, src_image |-> src_image,
     text1 |-> text1, text2 |-> text2]

From(image_ref) == BuildNode("From", image_ref, 0, 0, <<>>, <<>>)

Run(parent, command, cwd) == BuildNode("Run", "", parent, 0, command, cwd)

CopyFromImage(parent, src_image, src_path, dst_path) ==
    BuildNode("CopyFromImage", "", parent, src_image, src_path, dst_path)

CopyFromLocal(parent, src_path, dst_path) ==
    BuildNode("CopyFromLocal", "", parent, 0, src_path, dst_path)

SetWorkdir(parent, new_workdir) ==
    BuildNode("SetWorkdir", "", parent, 0, new_workdir, <<>>)

SetEntrypoint(parent, new_entrypoint) ==
    BuildNode("SetEntrypoint", "", parent, 0, new_entrypoint, <<>>)

SetLabel(parent, label, value) == BuildNode("SetLabel", "", parent, 0, label, value)

Output(node) == [node |-> node]

BuildPlan(nodes, outputs) == [nodes |-> nodes, outputs |-> outputs]

(* The node ids a node refers to. *)
dependencies(node) ==
    IF node.k = "From" THEN {}
    ELSE IF node.k = "CopyFromImage" THEN {node.parent, node.src_image}
    ELSE {node.parent}

(* A variant of the topological order that lists the nodes from the last. *)
topological_order_reversed(bp) ==
    [i \in 1..Len(bp.nodes) |-> Len(bp.nodes) - i]

(* BuildPlan::topological_order: the order of the vector. *)
topological_order(bp) == [i \in 1..Len(bp.nodes) |-> i - 1]

(* What the bridge to the builder answers: a value, held in v as a         *)
(* sequence of one member, or an error, held as the text of its Debug      *)
(* form.                                                                   *)
BridgeOk(v) == [ok |-> TRUE, v |-> <<v>>, e |-> ""]

BridgeErr(e) == [ok |-> FALSE, v |-> <<>>, e |-> e]

BridgeErrors == {"Error(\"unavailable\")"}

(* The specification the builder holds of an image. *)
resolved_config(image_ref) ==
    IF image_ref = "alpine" THEN ImageSpecification(image_ref, Nothing)
    ELSE IF image_ref = "app"
    THEN ImageSpecification(image_ref,
            Just(ImageConfig(Just("u"), Just([x \in {"E"} |-> "1"]), Nothing,
                             Just(PathBuf(FALSE, <<"srv">>)),
                             Just([x \in {"k1", "k2"} |-> "old"]))))
    ELSE ImageSpecification(image_ref,
            Just(ImageConfig(Nothing, Nothing, Just(<<"sh">>),
                             Just(PathBuf(TRUE, <<"w">>)), Nothing)))

(* bridge.resolve_image_config (lines 207 to 209): the answers the bridge  *)
(* can give about an image.                                                *)
resolve_image_config(image_ref) ==
    {BridgeOk(resolved_config(image_ref))} \cup {BridgeErr(e) : e \in BridgeErrors}

(* bridge.solve of the local source (lines 123 to 125): a reference to the *)
(* solved context, or an error.                                            *)
solve == {BridgeOk("context")} \cup {BridgeErr(e) : e \in BridgeErrors}

(* The contents the file .dockerignore of the context can have. *)
DockerignoreFiles == {<<"t", "\r", "\n", "c3", "a9">>, <<"a", "\n", "ff">>}

(* bridge.read_file (lines 127 to 129): the bytes of the file, or an error. *)
read_file == {BridgeOk(v) : v \in DockerignoreFiles} \cup {BridgeErr(e) : e \in BridgeErrors}

(* The value of a hexadecimal digit. *)
hex(d) == (CHOOSE i \in 1..Len(HEX_DIGITS) : HEX_DIGITS[i] = d) - 1

(* Whether a byte lies between two values from 0x80 on. *)
in_range(b, lo, hi) ==
    /\ Len(b) = 2
    /\ lo <= 16 * hex(SubSeq(b, 1, 1)) + hex(SubSeq(b, 2, 2))
    /\ 16 * hex(SubSeq(b, 1, 1)) + hex(SubSeq(b, 2, 2)) <= hi

(* UTF8_CHAR_WIDTH of a byte from 0x80 on. *)
utf8_char_width(b) ==
    IF in_range(b, 194, 223) THEN 2
    ELSE IF in_range(b, 224, 239) THEN 3
    ELSE IF in_range(b, 240, 244) THEN 4
    ELSE 0

Utf8Error(valid_up_to, error_len) ==
    [ok |-> FALSE, valid_up_to |-> valid_up_to, error_len |-> error_len]

(* The second byte of a character of three bytes, and of four. *)
second_of_three(first, next) ==
    \/ in_range(first, 224, 224) /\ in_range(next, 160, 191)
    \/ in_range(first, 225, 236) /\ in_range(next, 128, 191)
    \/ in_range(first, 237, 237) /\ in_range(next, 128, 159)
    \/ in_range(first, 238, 239) /\ in_range(next, 128, 191)

second_of_four(first, next) ==
    \/ in_range(first, 240, 240) /\ in_range(next, 144, 191)
    \/ in_range(first, 241, 243) /\ in_range(next, 128, 191)
    \/ in_range(first, 244, 244) /\ in_range(next, 128, 143)

(* str::from_utf8 (core's run_utf8_validation) from the byte at index, an  *)
(* index from 0: how far the bytes are valid and, with None as 0, the      *)
(* length of the invalid sequence.                                         *)
RECURSIVE run_utf8_validation(_, _)
run_utf8_validation(v, index) ==
    IF index >= Len(v) THEN [ok |-> TRUE, valid_up_to |-> Len(v), error_len |-> 0]
    ELSE LET first == v[index + 1]
             w == utf8_char_width(first)
             next(n) == v[index + 1 + n]
             more(n) == index + n < Len(v)
         IN  IF Len(first) # 2 THEN run_utf8_validation(v, index + 1)
             ELSE IF w = 2
             THEN IF ~more(1) THEN Utf8Error(index, 0)
                  ELSE IF ~in_range(next(1), 128, 191) THEN Utf8Error(index, 1)
                  ELSE run_utf8_validation(v, index + 2)
             ELSE IF w = 3
             THEN IF ~more(1) THEN Utf8Error(index, 0)
                  ELSE IF ~second_of_three(first, next(1)) THEN Utf8Error(index, 1)
                  ELSE IF ~more(2) THEN Utf8Error(index, 0)
                  ELSE IF ~in_range(next(2), 128, 191) THEN Utf8Error(index, 2)
                  ELSE run_utf8_validation(v, index + 3)
             ELSE IF w = 4
             THEN IF ~more(1) THEN Utf8Error(index, 0)
                  ELSE IF ~second_of_four(first, next(1)) THEN Utf8Error(index, 1)
                  ELSE IF ~more(2) THEN Utf8Error(index, 0)
                  ELSE IF ~in_range(next(2), 128, 191) THEN Utf8Error(index, 2)
                  ELSE IF ~more(3) THEN Utf8Error(index, 0)
                  ELSE IF ~in_range(next(3), 128, 191) THEN Utf8Error(index, 3)
                  ELSE run_utf8_validation(v, index + 4)
             ELSE Utf8Error(index, 1)

from_utf8(v) == run_utf8_validation(v, 0)

(* The Debug form of a Utf8Error. *)
utf8_error_debug(e) ==
    "Utf8Error { valid_up_to: " \o ToString(e.valid_up_to) \o ", error_len: "
    \o (IF e.error_len = 0 THEN "None" ELSE "Some(" \o ToString(e.error_len) \o ")")
    \o " }"

(* str::lines: the text is split after every line feed; a line loses its   *)
(* line feed and a carriage return before it, and no empty line follows    *)
(* the last line feed.                                                     *)
RECURSIVE lines(_, _, _)
lines(v, i, line) ==
    IF i > Len(v) THEN IF line = <<>> THEN <<>> ELSE <<line>>
    ELSE IF v[i] = "\n"
    THEN <<IF line # <<>> /\ line[Len(line)] = "\r"
           THEN SubSeq(line, 1, Len(line) - 1) ELSE line>>
         \o lines(v, i + 1, <<>>)
    ELSE lines(v, i + 1, Append(line, v[i]))

(* The outputs of the operations. *)
OwnedOutput(op, name, inputs, args) ==
    [op |-> op, name |-> name, inputs |-> inputs, args |-> args]

OperationArgs(from_path, to_path, user, envs) ==
    [from_path |-> from_path, to_path |-> to_path, user |-> user, envs |-> envs]

NoArgs == OperationArgs(PathBuf(TRUE, <<>>), PathBuf(TRUE, <<>>), "", Nothing)

(* buildkit::TMP_PREFIX_IGNORE_PATTERN *)
TMP_PREFIX_IGNORE_PATTERN == as_bytes("buildkit_temp_*")

(* Source::local with its custom name and its exclude patterns. *)
LocalSource(name, custom_name, exclude) ==
    [op |-> "local", name |-> <<name>>, inputs |-> <<>>, args |-> NoArgs,
     custom_name |-> custom_name, exclude |-> exclude]

(* get_local_source_for_copy (lines 181 to 196), once the file of patterns *)
(* is read: the local context with a pattern for every line of the file    *)
(* and the pattern of the temporary files.                                 *)
get_local_source_for_copy(dockerignore) ==
    LocalSource("context", "Sending local context for copy",
                dockerignore \o <<TMP_PREFIX_IGNORE_PATTERN>>)

Panic(message) == [kind |-> "panic", message |-> message, value |-> <<>>]

Done(value) == [kind |-> "Ok", message |-> "", value |-> value]

NotReturned == [kind |-> "none", message |-> "", value |-> <<>>]

(* Result::expect on an error: the message, then the Debug form of the     *)
(* error.                                                                  *)
expect_err(msg, e) == Panic(msg \o ": " \o e)

(* translated_nodes[id] with its Option taken: a panic when the index is   *)
(* out of bounds or the slot holds None.                                   *)
translated(tn, id, message) ==
    IF id + 1 \notin DOMAIN tn
    THEN Panic("index out of bounds: the len is " \o ToString(Len(tn))
               \o " but the index is " \o ToString(id))
    ELSE IF ~tn[id + 1].some THEN Panic(message)
    ELSE Done(tn[id + 1].v)

(* The messages of Rust are written without their grave accents. *)
unwrap_failed == "called Option::unwrap() on a None value"

expect_failed == "Expected dependencies to already be built"

(* SetLabel that forgets the labels of the parent. *)
set_label_forgetful(p_out, p_conf, label, value) ==
    LET config == get_or_insert_with(p_conf.config, empty_image_config)
    IN  <<p_out,
          [p_conf EXCEPT !.config =
              Just([config EXCEPT !.labels =
                       Just(btreemap_insert(<<>>, label, value))])]>>

(* lines 312 to 326 *)
set_label(p_out, p_conf, label, value) ==
    LET config == get_or_insert_with(p_conf.config, empty_image_config)
        labels == get_or_insert_with(config.labels, <<>>)
    IN  <<p_out,
          [p_conf EXCEPT !.config =
              Just([config EXCEPT !.labels =
                       Just(btreemap_insert(labels, label, value))])]>>

(* The body of the loop for one node (lines 201 to 327): the pair of the   *)
(* output and the image specification of the node, or a panic.  For a From *)
(* node, answer is what the bridge answered about its image; context is    *)
(* the local context built before the loop.                                *)
new_node(node, tn, answer, context) ==
    LET parent == translated(tn, node.parent,
                             IF node.k \in {"Run", "SetWorkdir"}
                             THEN expect_failed ELSE unwrap_failed)
        src == translated(tn, node.src_image, unwrap_failed)
    IN  IF node.k = "From"
        THEN IF ~answer.ok THEN expect_err("Resolution failed.", answer.e)
             ELSE Done(<<OwnedOutput("image", <<node.image_ref>>, <<>>, NoArgs),
                         answer.v[1]>>)
        ELSE IF parent.kind = "panic" THEN parent
        ELSE IF node.k = "Run"
        THEN LET parent_config == parent.value[2]
                 user == IF parent_config.config.some
                            /\ parent_config.config.v.user.some
                         THEN parent_config.config.v.user.v ELSE "0"
                 envs == IF parent_config.config.some
                         THEN parent_config.config.v.env ELSE Nothing
             IN  Done(<<OwnedOutput("run", node.text1, <<parent.value[1]>>,
                          OperationArgs(
                              path_join(get_cwd_from_image_spec(parent_config),
                                        node.text2),
                              PathBuf(TRUE, <<>>), user, envs)),
                        parent_config>>)
        ELSE IF node.k = "CopyFromImage"
        THEN IF src.kind = "panic" THEN src
             ELSE LET src_path == path_join(get_cwd_from_image_spec(src.value[2]),
                                            node.text1)
                      dst_path == path_join(get_cwd_from_image_spec(parent.value[2]),
                                            node.text2)
                  IN  Done(<<OwnedOutput("copy", <<node.text1, node.text2>>,
                                         <<src.value[1], parent.value[1]>>,
                                         OperationArgs(src_path, dst_path, "", Nothing)),
                             parent.value[2]>>)
        ELSE IF node.k = "CopyFromLocal"
        THEN LET dst_path == path_join(get_cwd_from_image_spec(parent.value[2]),
                                       node.text2)
             IN  Done(<<OwnedOutput("copy", <<node.text1, node.text2>>,
                                    <<context, parent.value[1]>>,
                                    OperationArgs(node.text1, dst_path, "", Nothing)),
                        parent.value[2]>>)
        ELSE IF node.k = "SetWorkdir"
        THEN LET parent_config == parent.value[2]
                 parent_dir == get_cwd_from_image_spec(parent_config)
                 config == get_or_insert_with(parent_config.config, empty_image_config)
             IN  Done(<<parent.value[1],
                        [parent_config EXCEPT !.config =
                            Just([config EXCEPT !.working_dir =
                                    Just(path_join(parent_dir, node.text1))])]>>)
        ELSE IF node.k = "SetEntrypoint"
        THEN LET p_conf == parent.value[2]
                 config == get_or_insert_with(p_conf.config, empty_image_config)
             IN  Done(<<parent.value[1],
                        [p_conf EXCEPT !.config =
                            Just([config EXCEPT !.entrypoint = Just(node.text1)])]>>)
        ELSE Done(set_label(parent.value[1], parent.value[2], node.text1, node.text2))

(* lines 330 to 337: the outputs of the plan, in the order of the plan. *)
RECURSIVE collect_outputs(_, _, _)
collect_outputs(os, tn, acc) ==
    IF os = <<>> THEN Done(acc)
    ELSE LET o == translated(tn, Head(os).node, "Expected output to be built")
         IN  IF o.kind = "panic" THEN o
             ELSE collect_outputs(Tail(os), tn, Append(acc, o.value))

(* handle_build_plan is called: a slot for every node (lines 146 to 151),  *)
(* then the local context (line 198), which is built at once without the   *)
(* file of patterns and awaits the bridge with it.                         *)
handle_build_plan_call ==
    /\ node_id = -1
    /\ awaiting = "none"
    /\ plan_result = NotReturned
    /\ translated_nodes' = [i \in DOMAIN frontend_build_plan.nodes |-> Nothing]
    /\ IF options.has_dockerignore
       THEN /\ awaiting' = "solve"
            /\ UNCHANGED <<local_context, node_id>>
       ELSE /\ local_context' = Just(get_local_source_for_copy(<<>>))
            /\ node_id' = 0
            /\ UNCHANGED awaiting
    /\ UNCHANGED <<rules, goal, maxdepth, grounded, stack, result, pc, auxCtr,
                   sols, prfs, translator_vars, parser_vars, reporting_vars,
                   surface_vars, frontend_build_plan, options, plan_result>>

(* read_local_file, lines 123 to 126: the bridge answers the solve of the  *)
(* local source.                                                           *)
read_local_file_solve ==
    /\ awaiting = "solve"
    /\ \E answer \in solve :
          IF ~answer.ok
          THEN /\ plan_result' = expect_err("Failed to get local context", answer.e)
               /\ awaiting' = "none"
          ELSE /\ awaiting' = "read_file"
               /\ UNCHANGED plan_result
    /\ UNCHANGED <<rules, goal, maxdepth, grounded, stack, result, pc, auxCtr,
                   sols, prfs, translator_vars, parser_vars, reporting_vars,
                   surface_vars, frontend_build_plan, options, local_context,
                   translated_nodes, node_id>>

(* read_local_file, lines 127 to 130, and the rest of                      *)
(* get_local_source_for_copy (lines 187 to 195): the bridge answers the    *)
(* read of the file, its bytes are taken as text and every line of it      *)
(* becomes a pattern.                                                      *)
read_local_file_read ==
    /\ awaiting = "read_file"
    /\ awaiting' = "none"
    /\ \E answer \in read_file :
          IF ~answer.ok
          THEN /\ plan_result' = expect_err("Failed to read local file", answer.e)
               /\ UNCHANGED <<local_context, node_id>>
          ELSE IF ~from_utf8(answer.v[1]).ok
          THEN /\ plan_result' =
                     expect_err("Expected .dockerignore to contain valid utf-8 content.",
                                utf8_error_debug(from_utf8(answer.v[1])))
               /\ UNCHANGED <<local_context, node_id>>
          ELSE /\ local_context' = Just(get_local_source_for_copy(lines(answer.v[1], 1, <<>>)))
               /\ node_id' = 0
               /\ UNCHANGED plan_result
    /\ UNCHANGED <<rules, goal, maxdepth, grounded, stack, result, pc, auxCtr,
                   sols, prfs, translator_vars, parser_vars, reporting_vars,
                   surface_vars, frontend_build_plan, options, translated_nodes>>

(* One turn of the loop over the topological order (lines 200 to 329), up  *)
(* to its end or, for a From node, up to the question to the bridge        *)
(* (line 209).                                                             *)
translate_node ==
    /\ node_id >= 0
    /\ node_id < Len(frontend_build_plan.nodes)
    /\ awaiting = "none"
    /\ plan_result = NotReturned
    /\ LET id == topological_order(frontend_build_plan)[node_id + 1]
           node == frontend_build_plan.nodes[id + 1]
           new == new_node(node, translated_nodes, BridgeErr(""), local_context.v)
       IN  IF node.k = "From"
           THEN /\ awaiting' = "resolve_image_config"
                /\ UNCHANGED <<translated_nodes, node_id, plan_result>>
           ELSE IF new.kind = "panic"
           THEN /\ plan_result' = new
                /\ UNCHANGED <<translated_nodes, node_id, awaiting>>
           ELSE /\ translated_nodes' = [translated_nodes EXCEPT ![id + 1] = Just(new.value)]
                /\ node_id' = node_id + 1
                /\ UNCHANGED <<plan_result, awaiting>>
    /\ UNCHANGED <<rules, goal, maxdepth, grounded, stack, result, pc, auxCtr,
                   sols, prfs, translator_vars, parser_vars, reporting_vars,
                   surface_vars, frontend_build_plan, options, local_context>>

(* The bridge answers about the image of a From node, and the turn of the  *)
(* loop ends (lines 209 to 211, line 328).                                 *)
translate_node_resolved ==
    /\ awaiting = "resolve_image_config"
    /\ awaiting' = "none"
    /\ LET id == topological_order(frontend_build_plan)[node_id + 1]
           node == frontend_build_plan.nodes[id + 1]
       IN  \E answer \in resolve_image_config(node.image_ref) :
              LET new == new_node(node, translated_nodes, answer, local_context.v)
              IN  IF new.kind = "panic"
                  THEN /\ plan_result' = new
                       /\ UNCHANGED <<translated_nodes, node_id>>
                  ELSE /\ translated_nodes' =
                              [translated_nodes EXCEPT ![id + 1] = Just(new.value)]
                       /\ node_id' = node_id + 1
                       /\ UNCHANGED plan_result
    /\ UNCHANGED <<rules, goal, maxdepth, grounded, stack, result, pc, auxCtr,
                   sols, prfs, translator_vars, parser_vars, reporting_vars,
                   surface_vars, frontend_build_plan, options, local_context>>

(* The outputs are collected and returned (lines 330 to 338). *)
handle_build_plan_return ==
    /\ node_id = Len(frontend_build_plan.nodes)
    /\ awaiting = "none"
    /\ plan_result = NotReturned
    /\ plan_result' = collect_outputs(frontend_build_plan.outputs, translated_nodes, <<>>)
    /\ UNCHANGED <<rules, goal, maxdepth, grounded, stack, result, pc, auxCtr,
                   sols, prfs, translator_vars, parser_vars, reporting_vars,
                   surface_vars, frontend_build_plan, options, local_context,
                   awaiting, translated_nodes, node_id>>

FrontendOptions(has_dockerignore) == [has_dockerignore |-> has_dockerignore]

FrontendIdle ==
    /\ frontend_build_plan = BuildPlan(<<>>, <<>>)
    /\ options = FrontendOptions(FALSE)
    /\ local_context = Nothing
    /\ awaiting = "none"
    /\ translated_nodes = <<>>
    /\ node_id = -1
    /\ plan_result = NotReturned

----------------------------------------------------------------------------
(* Reporting of the build result (src/modus/src/reporting.rs).  The plan   *)
(* is held as the sequence of the source literals of its outputs, each an  *)
(* Option, an image id and a constant as a sequence of characters, and the *)
(* bytes given to the writer as a sequence of bytes: a byte below 0x80 as  *)
(* its ASCII character, a byte from 0x80 on as its two hexadecimal digits. *)

Image(source_literal, digest) ==
    [predicate |-> source_literal.predicate, args |-> source_literal.args,
     digest |-> digest]

(* A variant of from_literal that takes the name of a term that is no      *)
(* constant as its text.                                                   *)
from_literal_lenient(lit) ==
    [panic |-> FALSE,
     value |-> [predicate |-> lit.predicate,
                args |-> [i \in DOMAIN lit.args |-> lit.args[i].s]]]

(* ConstantLiteral::from_literal. *)
from_literal(lit) ==
    IF \E i \in DOMAIN lit.args : ~IsConstant(lit.args[i])
    THEN [panic |-> TRUE, value |-> <<>>]
    ELSE [panic |-> FALSE,
          value |-> [predicate |-> lit.predicate,
                     args |-> [i \in DOMAIN lit.args |-> lit.args[i].s]]]

(* outputs.iter().zip(image_ids).map(..).collect(), from position i on:   *)
(* the source literal of the output is unwrapped, then converted.          *)
RECURSIVE zip_map_collect(_, _, _, _)
zip_map_collect(outputs, ids, i, res) ==
    IF i > Len(outputs) \/ i > Len(ids) THEN [panic |-> FALSE, message |-> "", value |-> res]
    ELSE IF ~outputs[i].some
    THEN [panic |-> TRUE, message |-> unwrap_failed, value |-> <<>>]
    ELSE LET source_literal == from_literal(outputs[i].v)
         IN  IF source_literal.panic
             THEN [panic |-> TRUE, message |-> "Expected constant", value |-> <<>>]
             ELSE zip_map_collect(outputs, ids, i + 1,
                                  Append(res, Image(source_literal.value, ids[i])))

(* serde_json's escape of a character (its table ESCAPE and                *)
(* write_char_escape): a quote, a backslash and every character below      *)
(* U+0020 are escaped, the last as \b, \t, \n, \f, \r or \u00 and two      *)
(* hexadecimal digits; every other character is written as its bytes.      *)
escape(ch) ==
    IF ch = dq THEN <<bs, dq>>
    ELSE IF ch = bs THEN <<bs, bs>>
    ELSE IF ch = ControlChars[9] THEN <<bs, "b">>
    ELSE IF ch = "\t" THEN <<bs, "t">>
    ELSE IF ch = "\n" THEN <<bs, "n">>
    ELSE IF ch = "\f" THEN <<bs, "f">>
    ELSE IF ch = "\r" THEN <<bs, "r">>
    ELSE IF \E c \in 1..Len(ControlChars) : ControlChars[c] = ch
    THEN <<bs, "u", "0", "0", HEX_DIGITS[(byte_of(ch) \div 16) + 1],
           HEX_DIGITS[(byte_of(ch) % 16) + 1]>>
    ELSE encode_utf8(ch)

RECURSIVE escaped(_)
escaped(s) == IF s = <<>> THEN <<>> ELSE escape(Head(s)) \o escaped(Tail(s))

(* serde_json's format_escaped_str. *)
format_str(s) == <<dq>> \o escaped(s) \o <<dq>>

comma(more) == IF more THEN <<",">> ELSE <<>>

(* The lines of the pretty-printed text, each the sequence of its bytes. *)
RECURSIVE format_args(_, _)
format_args(args, i) ==
    IF i > Len(args) THEN <<>>
    ELSE <<as_bytes("      ") \o format_str(args[i]) \o comma(i < Len(args))>>
         \o format_args(args, i + 1)

format_image(img, more) ==
    <<as_bytes("  {"),
      as_bytes("    \"predicate\": ") \o format_str(chars(img.predicate)) \o <<",">>>>
    \o (IF img.args = <<>> THEN <<as_bytes("    \"args\": [],")>>
        ELSE <<as_bytes("    \"args\": [")>> \o format_args(img.args, 1)
             \o <<as_bytes("    ],")>>)
    \o <<as_bytes("    \"digest\": ") \o format_str(img.digest),
         as_bytes("  }") \o comma(more)>>

RECURSIVE format_images(_, _)
format_images(res, i) ==
    IF i > Len(res) THEN <<>>
    ELSE format_image(res[i], i < Len(res)) \o format_images(res, i + 1)

(* The lines of the pretty-printed text with a newline between them. *)
RECURSIVE write_lines(_)
write_lines(ls) ==
    IF Len(ls) = 1 THEN ls[1] ELSE ls[1] \o <<"\n">> \o write_lines(Tail(ls))

(* serde_json::to_vec_pretty on a Vec<Image>; strings and sequences of     *)
(* strings always serialize.                                               *)
to_vec_pretty(res) ==
    [ok |-> TRUE, e |-> "",
     bytes |-> IF res = <<>> THEN <<"[", "]">>
               ELSE write_lines(<<<<"[">>>> \o format_images(res, 1) \o <<<<"]">>>>)]

json_out_name == "build.json"

WriteResult(kind, message) == [kind |-> kind, message |-> message]

NotWritten == WriteResult("none", "")

(* Write::write_all on a writer that fails: the writer has taken any       *)
(* number of the bytes, not all of them, before the error.                 *)
write_all_failed(bytes) == {SubSeq(bytes, 1, n) : n \in 0..(Len(bytes) - 1)}

(* The message of debug_assert_eq! (line 63), without the grave accents    *)
(* around left == right, which a string here cannot hold.                  *)
assert_eq_failed(left, right) ==
    "assertion left == right failed\n  left: " \o ToString(left)
        \o "\n right: " \o ToString(right)

(* The message of debug_assert! (lines 64 to 67). *)
assert_failed ==
    "assertion failed: build_plan.outputs.iter().all(|x| x.source_literal.is_some())"

(* write_build_result.  The two debug assertions (an image id for every    *)
(* output, a source literal in every output) are compiled in or left out   *)
(* by the build: with them a call that breaks one panics before anything   *)
(* else; without them zip pairs as many outputs and ids as both have, and  *)
(* the unwrap of an output of a pair that has no source literal panics.    *)
write_build_result ==
    /\ write_result = NotWritten
    /\ \E debug_assertions \in BOOLEAN :
          IF debug_assertions /\ Len(build_plan) # Len(image_ids)
          THEN /\ write_result' =
                      WriteResult("panic", assert_eq_failed(Len(build_plan), Len(image_ids)))
               /\ UNCHANGED json_out
          ELSE IF debug_assertions /\ \E i \in DOMAIN build_plan : ~build_plan[i].some
          THEN /\ write_result' = WriteResult("panic", assert_failed)
               /\ UNCHANGED json_out
          ELSE LET res == zip_map_collect(build_plan, image_ids, 1, <<>>)
                   ser == to_vec_pretty(res.value)
               IN  IF res.panic
                   THEN /\ write_result' = WriteResult("panic", res.message)
                        /\ UNCHANGED json_out
                   ELSE IF ~ser.ok
                   THEN /\ write_result' =
                               WriteResult("Err", "Serialization error: " \o ser.e)
                        /\ UNCHANGED json_out
                   ELSE IF json_out_writer.fails
                   THEN /\ write_result' =
                               WriteResult("Err", "Error writing to " \o json_out_name
                                               \o ": " \o json_out_writer.e)
                        /\ json_out' \in write_all_failed(ser.bytes)
                   ELSE /\ write_result' = WriteResult("Ok", "")
                        /\ json_out' = ser.bytes
    /\ UNCHANGED <<rules, goal, maxdepth, grounded, stack, result, pc, auxCtr,
                   sols, prfs, translator_vars, parser_vars, build_plan,
                   image_ids, json_out_writer, surface_vars, frontend_vars>>

Writer(fails, e) == [fails |-> fails, e |-> e]

ReportingIdle ==
    /\ build_plan = <<>>
    /\ image_ids = <<>>
    /\ json_out_writer = Writer(TRUE, "closed")
    /\ json_out = <<>>
    /\ write_result = NotWritten

----------------------------------------------------------------------------
(* Inputs.                                                                 *)

vX == UserVariable(<<"X">>)
vY == UserVariable(<<"Y">>)
kc == Constant(<<"c">>)
kd == Constant(<<"d">>)

ClausePool ==
    << Clause(Literal("a", <<vX>>), <<Literal("b", <<vX>>)>>),
       Clause(Literal("b", <<kc>>), <<>>),
       Clause(Literal("b", <<kd>>), <<>>),
       Clause(Literal("a", <<vX>>), <<>>),
       Clause(Literal("a", <<kc>>), <<>>),
       Clause(Literal("a", <<kc>>), <<Literal("zzz", <<kc>>)>>),
       Clause(Literal("a", <<vX>>), <<Literal("a", <<vX>>)>>),
       Clause(Literal("b", <<vX>>), <<Literal("a", <<vX>>)>>),
       Clause(Literal("a", <<vX>>), <<Literal("e", <<vX, vY>>), Literal("b", <<vY>>)>>),
       Clause(Literal("e", <<kc, kd>>), <<>>),
       Clause(Literal("b", <<vY>>),
              <<Literal("string_concat", <<kc, kd, vY>>)>>) >>

Queries ==
    { <<>>,
      <<Literal("a", <<vX>>)>>,
      <<Literal("a", <<kc>>)>>,
      <<Literal("b", <<vX>>)>>,
      <<Literal("a", <<vX>>), Literal("b", <<vX>>)>>,
      <<Literal("zzz", <<kc>>)>>,
      <<Literal("a", <<kc>>), Literal("zzz", <<kc>>)>>,
      <<Literal("string_concat", <<kc, kd, vX>>)>>,
      <<Literal("string_concat", <<vX, vY, kc>>), Literal("a", <<kc>>)>> }

RECURSIVE Pick(_, _, _)
Pick(pool, S, i) ==
    IF i > Len(pool) THEN <<>>
    ELSE (IF i \in S THEN <<pool[i]>> ELSE <<>>) \o Pick(pool, S, i + 1)

RuleSets ==
    {Pick(ClausePool, S, 1) :
        S \in {T \in SUBSET DOMAIN ClausePool : Cardinality(T) <= MaxRules}}

NoProofs == [fault |-> FALSE, list |-> <<>>]

Start(rs, g, md) ==
    /\ rules = rs
    /\ goal = g
    /\ maxdepth = md
    /\ grounded = check_grounded_variables(rs)
    /\ stack = <<Frame(goal_with_history(g), 0, <<0, QueryId>>,
                       EmptySubstitution, EmptySubstitution)>>
    /\ result = None
    /\ pc = "run"
    /\ auxCtr = 0
    /\ sols = {}
    /\ prfs = NoProofs
    /\ TranslatorIdle
    /\ ParserIdle
    /\ ReportingIdle
    /\ SurfaceIdle
    /\ FrontendIdle

Init == \E rs \in RuleSets, g \in Queries, md \in 0..MaxDepth : Start(rs, g, md)

Next == inner_enter \/ inner_expand \/ inner_return \/ solutions_call \/ proofs_call

Spec == Init /\ [][Next]_vars

----------------------------------------------------------------------------
(* The recursion test (sld.rs, tests::simple_recursion): the two reach     *)
(* rules over a set of ground arc facts, and the query reach("a", X).      *)

ReachNodes == {"a", "b", "c"}

Node(x) == Constant(<<x>>)

vZ == UserVariable(<<"Z">>)

ReachRules ==
    << Clause(Literal("reach", <<vX, vY>>),
              <<Literal("reach", <<vX, vZ>>), Literal("arc", <<vZ, vY>>)>>),
       Clause(Literal("reach", <<vX, vY>>), <<Literal("arc", <<vX, vY>>)>>) >>

ArcPool ==
    << <<"a", "b">>, <<"b", "c">>, <<"c", "a">>, <<"b", "a">>, <<"c", "b">>,
       <<"a", "c">>, <<"a", "a">>, <<"b", "b">>, <<"c", "c">> >>

ArcFact(e) == Clause(Literal("arc", <<Node(e[1]), Node(e[2])>>), <<>>)

ArcFacts(S) == Pick([i \in DOMAIN ArcPool |-> ArcFact(ArcPool[i])], S, 1)

ReachQuery == <<Literal("reach", <<Node("a"), vX>>)>>

(* A depth at which every reachable node is found: over n nodes a         *)
(* shortest walk to a node has at most n arcs, and a walk of k arcs is     *)
(* proved by 2k resolution steps.                                          *)
ReachDepth == 2 * Cardinality(ReachNodes)

InitReach ==
    \E S \in {T \in SUBSET DOMAIN ArcPool : Cardinality(T) <= MaxArcs},
       md \in {ReachDepth, ReachDepth + 1} :
        Start(ReachRules \o ArcFacts(S), ReachQuery, md)

NextReach == inner_enter \/ inner_expand \/ inner_return \/ solutions_call

SpecReach == InitReach /\ [][NextReach]_vars

----------------------------------------------------------------------------
(* The string tests (sld.rs, tests::string_concat and                      *)
(* tests::string_concat_complex): a single string_concat literal over an   *)
(* empty rule set, and the rules a("ab"). a(S) :- string_concat("a",X,S),  *)
(* string_concat(Y,"b",X), a(Y). with the queries a(s).                    *)

RECURSIVE Strs(_)
Strs(n) ==
    IF n <= 0 THEN {<<>>}
    ELSE Strs(n - 1) \cup {<<ch>> \o s : ch \in {"a", "b"}, s \in Strs(n - 1)}

hello == <<"h", "e", "l", "l", "o">>
world == <<"w", "o", "r", "l", "d">>

vS == UserVariable(<<"S">>)

ConcatTerms ==
    {Constant(s) : s \in Strs(MaxStr - 2) \cup {hello, world, hello \o world}}
    \cup {vX, vY, vZ}

ConcatQueries ==
    {<<Literal("string_concat", <<t1, t2, t3>>)>> : t1, t2, t3 \in ConcatTerms}

AnBnRules ==
    << Clause(Literal("a", <<Constant(<<"a", "b">>)>>), <<>>),
       Clause(Literal("a", <<vS>>),
              <<Literal("string_concat", <<Constant(<<"a">>), vX, vS>>),
                Literal("string_concat", <<vY, Constant(<<"b">>), vX>>),
                Literal("a", <<vY>>)>>) >>

AnBnQueries ==
    {<<Literal("a", <<Constant(s)>>)>> :
        s \in Strs(MaxStr) \cup {<<"a", "a", "a", "b", "b", "b">>}}

(* A depth that suffices for every query a(s) above: each turn of the      *)
(* recursive rule takes three resolution steps and shortens s by two.      *)
ConcatDepth == 2 * MaxStr + 4

InitConcat ==
    \/ \E g \in ConcatQueries : Start(<<>>, g, ConcatDepth)
    \/ \E g \in AnBnQueries : Start(AnBnRules, g, ConcatDepth)

NextConcat == inner_enter \/ inner_expand \/ inner_return \/ solutions_call

SpecConcat == InitConcat /\ [][NextConcat]_vars

----------------------------------------------------------------------------
(* Translations: one thread translates a program clause by clause.         *)

SurfaceLiterals == {Literal("a", <<vX>>), Literal("b", <<vX>>), Literal("c", <<>>)}

merge == Literal("merge", <<>>)

foo == Literal("foo", <<vX>>)

bar == Literal("bar", <<>>)

(* The expressions of n nodes, and the lists of expressions of n nodes in  *)
(* all.                                                                    *)
RECURSIVE ExprsOfSize(_)
RECURSIVE ListsOfSize(_)
ExprsOfSize(n) ==
    IF n <= 0 THEN {}
    ELSE IF n = 1 THEN {ExprLiteral(l) : l \in SurfaceLiterals}
    ELSE {OperatorApplication(e, merge) : e \in ExprsOfSize(n - 1)}
         \cup {ConjunctionList(es) : es \in ListsOfSize(n - 1)}
         \cup {DisjunctionList(es) : es \in ListsOfSize(n - 1)}

ListsOfSize(n) ==
    IF n = 0 THEN {<<>>}
    ELSE UNION {{<<e>> \o rest : e \in ExprsOfSize(m), rest \in ListsOfSize(n - m)} :
                   m \in 1..n}

Bodies(n) == {NoBody} \cup {SomeBody(e) : e \in UNION {ExprsOfSize(m) : m \in 1..n}}

Programs ==
    {<<ModusClause(foo, b)>> : b \in Bodies(MaxNodes)}
    \cup {<<ModusClause(foo, b1), ModusClause(bar, b2)>> :
             b1 \in Bodies(MaxNodes - 2), b2 \in Bodies(1)}

ResolverIdle ==
    /\ rules = <<>>
    /\ goal = <<>>
    /\ maxdepth = 0
    /\ grounded = check_grounded_variables(<<>>)
    /\ stack = <<>>
    /\ result = None
    /\ pc = "idle"
    /\ auxCtr = 0
    /\ sols = {}
    /\ prfs = NoProofs

StartTranslator(start, programs) ==
    /\ ResolverIdle
    /\ AVAILABLE_LITERAL_INDEX = start
    /\ index_at_start = start
    /\ threads = [t \in DOMAIN programs |-> Thread(programs[t])]
    /\ issued = <<>>
    /\ ParserIdle
    /\ ReportingIdle
    /\ SurfaceIdle
    /\ FrontendIdle

InitTranslate ==
    \E start \in {U32Zero, <<0, 9>>}, program \in Programs :
        StartTranslator(start, <<program>>)

NextTranslate == literal_index_fetch_add \/ from_return

SpecTranslate == InitTranslate /\ [][NextTranslate]_vars

----------------------------------------------------------------------------
(* Two threads of one process, each translating a clause that needs an     *)
(* auxiliary predicate: from the start of the process, and from the last   *)
(* values of the counter.                                                  *)

CounterClauses ==
    {mc \in {ModusClause(foo, b) : b \in Bodies(MaxNodes - 2)} : fetch_count(mc) >= 1}

InitThreads ==
    \E p1, p2 \in CounterClauses : StartTranslator(U32Zero, << <<p1>>, <<p2>> >>)

SpecThreads == InitThreads /\ [][NextTranslate]_vars

InitOverflow ==
    \E start \in {<<Half - 1, Half - 2>>, U32Max}, p1, p2 \in CounterClauses :
        StartTranslator(start, << <<p1>>, <<p2>> >>)

SpecOverflow == InitOverflow /\ [][NextTranslate]_vars

----------------------------------------------------------------------------
(* Parsing: the source text of a string constant, an opening quote (or f   *)
(* and a quote) followed by up to MaxRaw characters, is given to           *)
(* modus_const, and as the argument of the fact a(..). to from_str.        *)

RawChars == {"a", "n", bs, dq, nl, " ", "\f"}

RECURSIVE Texts(_)
Texts(n) ==
    IF n <= 0 THEN {<<>>}
    ELSE Texts(n - 1) \cup {<<ch>> \o s : ch \in RawChars, s \in Texts(n - 1)}

InitParse ==
    /\ ResolverIdle
    /\ TranslatorIdle
    /\ \E open \in {<<dq>>, <<"f", dq>>}, w \in Texts(MaxRaw) : input = open \o w
    /\ const_result = NotCalled
    /\ file_result = NotCalled
    /\ ReportingIdle
    /\ SurfaceIdle
    /\ FrontendIdle

NextParse == modus_const_call \/ from_str_call

SpecParse == InitParse /\ [][NextParse]_vars

----------------------------------------------------------------------------
(* Reporting: a plan of up to MaxOutputs outputs, with or without a source *)
(* literal, up to MaxOutputs image ids, as many as the outputs or not, and *)
(* a writer that takes the bytes or fails.                                 *)

OutputLiterals ==
    {Just(Literal("app", <<>>)),
     Just(Literal("app", <<Constant(<<"a">>)>>)),
     Just(Literal("app", <<Constant(<<"a">>), Constant(<<"b", dq>>)>>)),
     Just(Literal("lib", <<Constant(<<bs, "\f", ControlChars[2], "é">>)>>)),
     Just(Literal("lib", <<vX>>)),
     Just(Literal("lib", <<Constant(<<"a">>), vX>>)),
     Nothing}

Digests == {<<"i", "d", "1">>, <<"i", "d", "2">>}

RECURSIVE SeqsOf(_, _)
SeqsOf(S, n) ==
    IF n <= 0 THEN {<<>>}
    ELSE SeqsOf(S, n - 1) \cup {<<x>> \o s : x \in S, s \in SeqsOf(S, n - 1)}

InitReport ==
    /\ ResolverIdle
    /\ TranslatorIdle
    /\ ParserIdle
    /\ build_plan \in SeqsOf(OutputLiterals, MaxOutputs)
    /\ image_ids \in SeqsOf(Digests, MaxOutputs)
    /\ json_out_writer \in {Writer(FALSE, ""), Writer(TRUE, "broken pipe")}
    /\ json_out = <<>>
    /\ write_result = NotWritten
    /\ SurfaceIdle
    /\ FrontendIdle

NextReport == write_build_result

SpecReport == InitReport /\ [][NextReport]_vars

----------------------------------------------------------------------------
(* Pruning, display and parsing: a surface clause with the head foo(X) and *)
(* a body of up to MaxNodes nodes, lists of one member and of no member    *)
(* included, is pruned, displayed, and the text parsed.                    *)

EmptyLists ==
    {ConjunctionList(<<>>), DisjunctionList(<<>>),
     ConjunctionList(<<DisjunctionList(<<>>)>>),
     DisjunctionList(<<ExprLiteral(Literal("c", <<>>)), ConjunctionList(<<>>)>>),
     OperatorApplication(ConjunctionList(<<>>), merge)}

InitSurface ==
    /\ ResolverIdle
    /\ TranslatorIdle
    /\ ParserIdle
    /\ ReportingIdle
    /\ surface \in {ModusClause(foo, b) :
                       b \in Bodies(MaxNodes) \cup {SomeBody(e) : e \in EmptyLists}}
    /\ pruned_clause = NoClause
    /\ text = <<>>
    /\ reparsed = NotCalled
    /\ FrontendIdle

NextSurface == prune_call \/ to_string_call \/ modus_clause_from_str_call

SpecSurface == InitSurface /\ [][NextSurface]_vars

----------------------------------------------------------------------------
(* The build plans handed to handle_build_plan: up to MaxPlanNodes nodes;  *)
(* a node refers to one of the two nodes before it, a Run and a            *)
(* CopyFromImage node also to itself; a node whose parent is the node      *)
(* before it comes with paths without a root and with paths with a root;   *)
(* the outputs are none, the last node, or the last node and the first.    *)

ImageRefs == {"alpine", "app"}

References(i, n) == {r \in 0..(n - 1) : r <= i /\ r >= i - 2}

Earlier(i, n) == {r \in References(i, n) : r < i}

Before(i, n) == {r \in References(i, n) : r = i - 1}

BuildNodes(i, n) ==
    {From(image_ref) : image_ref \in ImageRefs}
    \cup {Run(r, <<"make">>, PathBuf(FALSE, <<"src">>)) : r \in References(i, n)}
    \cup {Run(r, <<"make">>, PathBuf(TRUE, <<"abs">>)) : r \in Before(i, n)}
    \cup {CopyFromImage(r, s, PathBuf(FALSE, <<"bin">>), PathBuf(FALSE, <<"out">>)) :
             r \in References(i, n), s \in References(i, n)}
    \cup {CopyFromImage(r, r, PathBuf(TRUE, <<"bin">>), PathBuf(TRUE, <<"out">>)) :
             r \in Before(i, n)}
    \cup {CopyFromLocal(r, PathBuf(FALSE, <<"in">>), PathBuf(FALSE, <<"out">>)) :
             r \in Earlier(i, n)}
    \cup {CopyFromLocal(r, PathBuf(TRUE, <<"in">>), PathBuf(TRUE, <<"out">>)) :
             r \in Before(i, n)}
    \cup {SetWorkdir(r, PathBuf(FALSE, <<"d">>)) : r \in Earlier(i, n)}
    \cup {SetWorkdir(r, PathBuf(TRUE, <<"x">>)) : r \in Before(i, n)}
    \cup {SetEntrypoint(r, <<"run">>) : r \in Earlier(i, n)}
    \cup {SetLabel(r, "k1", "new") : r \in Earlier(i, n)}

(* The sequences of the first k nodes of a plan of n nodes. *)
RECURSIVE NodeSequences(_, _)
NodeSequences(k, n) ==
    IF k = 0 THEN {<<>>}
    ELSE {Append(nodes, b) : nodes \in NodeSequences(k - 1, n), b \in BuildNodes(k - 1, n)}

PlanOutputs(n) ==
    IF n = 0 THEN {<<>>} ELSE {<<>>, <<Output(n - 1)>>, <<Output(n - 1), Output(0)>>}

BuildPlans(n) ==
    {BuildPlan(nodes, outputs) : nodes \in NodeSequences(n, n), outputs \in PlanOutputs(n)}

InitFrontend ==
    /\ ResolverIdle
    /\ TranslatorIdle
    /\ ParserIdle
    /\ ReportingIdle
    /\ SurfaceIdle
    /\ \E n \in 0..MaxPlanNodes : frontend_build_plan \in BuildPlans(n)
    /\ options \in {FrontendOptions(has_dockerignore) : has_dockerignore \in BOOLEAN}
    /\ local_context = Nothing
    /\ awaiting = "none"
    /\ translated_nodes = <<>>
    /\ node_id = -1
    /\ plan_result = NotReturned

NextFrontend ==
    \/ handle_build_plan_call
    \/ read_local_file_solve
    \/ read_local_file_read
    \/ translate_node
    \/ translate_node_resolved
    \/ handle_build_plan_return

SpecFrontend == InitFrontend /\ [][NextFrontend]_vars

----------------------------------------------------------------------------
(* Properties.                                                             *)

Returned == pc \in {"done", "solved", "proved"}

GroundGoal(g) == \A i \in DOMAIN g : AllConstant(g[i])

(* C1: every literal of every goal in solutions(tree) has only Constant    *)
(* arguments, for every tree sld returns.                                  *)
C1_SolutionsGround ==
    pc \in {"solved", "proved"} => \A s \in sols : GroundGoal(s)

C1_Witness ==
    /\ pc = "solved"
    /\ GoalVariables(goal) # {}
    /\ Cardinality(sols) >= 2

(* A derivation that follows the selection rule and reaches the empty goal *)
(* at a level <= maxdepth, from goal gl standing at the given level.       *)
RECURSIVE Derivable(_, _, _)
Derivable(gl, level, ctr) ==
    \/ gl = <<>>
    \/ /\ level < maxdepth
       /\ select(gl, grounded).kind = "some"
       /\ LET lid == select(gl, grounded).lid
              l == gl[lid + 1].literal
          IN  \/ /\ builtin_resolves(l).some
                 /\ Derivable(resolve(lid, BuiltinId(builtin_resolves(l).lit), gl,
                                      builtin_resolves(l).mgu,
                                      Clause(builtin_resolves(l).lit, <<>>), level + 1),
                              level + 1, ctr)
              \/ \E r \in DOMAIN rules :
                    /\ Signature(rules[r].head) = Signature(l)
                    /\ LET rn == rename_with_sub(rules[r], ctr)
                           u == unify(rn.clause.head, l)
                       IN  /\ u.ok
                           /\ Derivable(resolve(lid, RuleId(r - 1), gl, u.s,
                                                rn.clause, level + 1),
                                        level + 1, rn.ctr)

HasDerivation == Derivable(goal_with_history(goal), 0, 0)

(* C2 as stated: sld returns Some(tree) if and only if a derivation that   *)
(* follows the selection rule reaches the empty goal at a level <=         *)
(* maxdepth.  A search that ends in the unknown-predicate fault returns    *)
(* nothing, whatever derivations its other branches hold.                  *)
C2_SomeIffDerivation ==
    pc # "run" => ((Returned /\ result.some) <=> HasDerivation)

(* C2, amended: a search that does not end in the unknown-predicate fault  *)
(* returns Some(tree) if and only if there is such a derivation, and None  *)
(* otherwise; an empty query yields a tree for every maxdepth, a non-empty *)
(* query with maxdepth 0 yields None.                                      *)
C2_ReturnedSomeIffDerivation ==
    Returned =>
        /\ result.some <=> HasDerivation
        /\ goal = <<>> => result.some
        /\ (goal # <<>> /\ maxdepth = 0) => ~result.some

C2_Witness ==
    /\ pc = "done"
    /\ result.some
    /\ Len(goal) = 2
    /\ Cardinality(DOMAIN result.tree.resolvents) >= 2

(* An upper bound on the steps the search still has to take: a frame at    *)
(* a level below maxdepth tries at most one builtin and every rule, each   *)
(* try calling inner one level deeper.                                     *)
RECURSIVE StepsBound(_)
StepsBound(level) ==
    IF level >= maxdepth THEN 2
    ELSE 2 + (Len(rules) + 1) * (1 + StepsBound(level + 1))

FrameWork(f) ==
    IF f.phase = "call" THEN StepsBound(f.level)
    ELSE IF f.phase = "iter" THEN 1 + Len(f.cands) * (1 + StepsBound(f.level + 1))
    ELSE 1

RECURSIVE StackWork(_)
StackWork(st) == IF st = <<>> THEN 0 ELSE FrameWork(Head(st)) + StackWork(Tail(st))

SearchVariant ==
    StackWork(stack)
    + (IF pc \in {"run", "done"} THEN 2 ELSE IF pc = "solved" THEN 1 ELSE 0)

(* C3: no selection or expansion is performed at a level >= maxdepth,      *)
(* inner is never invoked at a level greater than maxdepth, and the search *)
(* terminates: while it runs a step is always enabled, and every step      *)
(* lowers a bound on the steps that remain.                                *)
C3_Levels ==
    \A i \in DOMAIN stack :
        /\ stack[i].level <= maxdepth
        /\ stack[i].level = i - 1
        /\ stack[i].phase = "iter" => stack[i].level < maxdepth

(* The guards of the three steps of the search: one of them holds.         *)
SearchCanStep ==
    /\ stack # <<>>
    /\ \/ Top.phase = "call"
       \/ Top.phase = "iter" /\ Top.cands # <<>>
       \/ Top.phase = "ret" \/ (Top.phase = "iter" /\ Top.cands = <<>>)

C3_Terminates ==
    /\ [](C3_Levels /\ (pc = "run" => SearchCanStep))
    /\ [][SearchVariant' < SearchVariant /\ SearchVariant' >= 0]_vars

C3_Witness ==
    /\ pc = "run"
    /\ stack # <<>>
    /\ maxdepth >= 2
    /\ Top.level = maxdepth
    /\ Top.phase = "ret"
    /\ Top.goal # <<>>
    /\ Top.key[2].kind = "Rule"
    /\ rules[Top.key[2].rid + 1].head \in Range(rules[Top.key[2].rid + 1].body)

(* What the selector accepts, read off the groundness vector both ways.    *)
IsUser(l) == Signature(l) \in DOMAIN grounded

AcceptsWhereTrueMustBeGround(l) ==
    \/ select_builtin(l) = "Match"
    \/ /\ IsUser(l)
       /\ \A j \in DOMAIN l.args : grounded[Signature(l)][j] => IsConstant(l.args[j])

AcceptsWhereFalseMustBeGround(l) ==
    \/ select_builtin(l) = "Match"
    \/ /\ IsUser(l)
       /\ \A j \in DOMAIN l.args : ~grounded[Signature(l)][j] => IsConstant(l.args[j])

Selected == {i \in DOMAIN stack : stack[i].phase = "iter"}

(* C4 as stated: the selected index is the smallest whose literal is a     *)
(* builtin with Match or a user literal holding a Constant at every        *)
(* position j with grounded[j] = true.                                     *)
C4_SelectTrueMustBeGround ==
    \A i \in Selected :
        LET f == stack[i]
        IN  /\ AcceptsWhereTrueMustBeGround(f.goal[f.lid + 1].literal)
            /\ \A m \in 1..f.lid : ~AcceptsWhereTrueMustBeGround(f.goal[m].literal)

(* C4, amended: the selected index is the smallest whose literal is a      *)
(* builtin with Match or a user literal holding a Constant at every        *)
(* position j with grounded[j] = false; positions with grounded[j] = true  *)
(* may hold variables.                                                     *)
C4_SelectFalseMustBeGround ==
    \A i \in Selected :
        LET f == stack[i]
        IN  /\ AcceptsWhereFalseMustBeGround(f.goal[f.lid + 1].literal)
            /\ \A m \in 1..f.lid : ~AcceptsWhereFalseMustBeGround(f.goal[m].literal)

C4_Witness ==
    \E i \in Selected :
        LET f == stack[i]
        IN  /\ f.lid >= 1
            /\ \E j \in DOMAIN f.goal[f.lid + 1].literal.args :
                  ~IsConstant(f.goal[f.lid + 1].literal.args[j])

(* C5: with a predicate defined only by the fact a(X)., the query a(X)     *)
(* makes sld return None without a fault, and the query a("c") returns a   *)
(* tree whose only solution is the query itself.                           *)
FactWithVariable == Clause(Literal("a", <<vX>>), <<>>)

OnlyFactWithVariable ==
    /\ FactWithVariable \in Range(rules)
    /\ \A r \in DOMAIN rules :
          rules[r].head.predicate = "a" => rules[r] = FactWithVariable

C5_NonGroundedQuery ==
    OnlyFactWithVariable =>
        /\ goal = <<Literal("a", <<vX>>)>> =>
              /\ pc # "panic"
              /\ Returned => ~result.some
        /\ (goal = <<Literal("a", <<kc>>)>> /\ maxdepth >= 1) =>
              /\ pc # "panic"
              /\ Returned => result.some
              /\ pc \in {"solved", "proved"} => sols = {goal}

C5_Witness ==
    /\ OnlyFactWithVariable
    /\ goal = <<Literal("a", <<vX>>)>>
    /\ maxdepth >= 1
    /\ pc = "done"
    /\ ~result.some

(* A literal that is neither a builtin nor a predicate of the rule set.    *)
IsUnknown(l) == ~IsUser(l) /\ select_builtin(l) = "NoMatch"

HasUnknown(gl) == \E i \in DOMAIN gl : IsUnknown(gl[i].literal)

(* The scan of select meets an unknown literal before a selectable one.    *)
ScanMeetsUnknown(gl) ==
    \E u \in DOMAIN gl :
        /\ IsUnknown(gl[u].literal)
        /\ \A m \in 1..(u - 1) : ~AcceptsWhereFalseMustBeGround(gl[m].literal)

(* C6 as stated: a goal holding a literal of an unknown predicate, reached *)
(* at any level and with the literal at any place, makes sld abort: inner  *)
(* never returns from such a goal and never expands it.                    *)
C6_UnknownAlwaysFaults ==
    \A i \in DOMAIN stack :
        stack[i].phase \in {"ret", "iter"} => ~HasUnknown(stack[i].goal)

(* C6, amended: sld aborts with the unknown-predicate fault when, and only *)
(* when, select runs (on a non-empty goal at a level < maxdepth) and its   *)
(* scan from the left meets a literal of an unknown predicate before any   *)
(* selectable literal.                                                     *)
C6_FaultWhenScanMeetsUnknown ==
    /\ \A i \in DOMAIN stack :
          (stack[i].phase \in {"ret", "iter"} /\ stack[i].level < maxdepth) =>
              ~ScanMeetsUnknown(stack[i].goal)
    /\ pc = "panic" =>
          /\ stack # <<>>
          /\ Top.phase = "call"
          /\ Top.level < maxdepth
          /\ ScanMeetsUnknown(Top.goal)

C6_Witness ==
    /\ pc = "panic"
    /\ Top.level >= 1
    /\ Len(Top.goal) >= 1

(* The proofs of a proof tree, the root included. *)
RECURSIVE Nodes(_)
Nodes(p) == {p} \cup UNION {Nodes(p.children[i]) : i \in DOMAIN p.children}

ProofNodes == UNION {Nodes(prfs.list[i]) : i \in DOMAIN prfs.list}

(* C7: proofs fails no assertion, index or unwrap; a Rule(r) node has      *)
(* rules[r].body.len() children, a Builtin node none, the Query root as    *)
(* many as the query has literals, child k proving body literal k.         *)
ProvesLiteral(child, lit) ==
    IF child.clause.kind = "Builtin" THEN child.clause.lit = lit
    ELSE /\ child.clause.kind = "Rule"
         /\ SubstituteLiteral(rules[child.clause.rid + 1].head, child.valuation) = lit

C7_ProofShape ==
    pc = "proved" =>
        /\ ~prfs.fault
        /\ \A i \in DOMAIN prfs.list :
              /\ prfs.list[i].clause = QueryId
              /\ Len(prfs.list[i].children) = Len(goal)
              /\ \A k \in DOMAIN goal :
                    ProvesLiteral(prfs.list[i].children[k],
                                  SubstituteLiteral(goal[k], prfs.list[i].valuation))
        /\ \A p \in ProofNodes :
              /\ p.clause.kind = "Rule" =>
                    /\ Len(p.children) = Len(rules[p.clause.rid + 1].body)
                    /\ \A k \in DOMAIN p.children :
                          ProvesLiteral(p.children[k],
                                        SubstituteLiteral(rules[p.clause.rid + 1].body[k],
                                                          p.valuation))
              /\ p.clause.kind = "Builtin" => Len(p.children) = 0

C7_Witness ==
    /\ pc = "proved"
    /\ Len(goal) >= 1
    /\ \E p \in ProofNodes : p.clause.kind = "Rule" /\ Len(p.children) = 2

(* C8: under its node's valuation the head and every body literal of the   *)
(* applied rule have only Constant arguments, and so has the query under   *)
(* the root's valuation.                                                   *)
C8_ProofsGround ==
    pc = "proved" =>
        /\ \A i \in DOMAIN prfs.list :
              GroundGoal(SubstituteGoal(goal, prfs.list[i].valuation))
        /\ \A p \in ProofNodes :
              p.clause.kind = "Rule" =>
                  LET cl == SubstituteClause(rules[p.clause.rid + 1], p.valuation)
                  IN  AllConstant(cl.head) /\ GroundGoal(cl.body)

C8_Witness ==
    /\ pc = "proved"
    /\ \E p \in ProofNodes :
          /\ p.clause.kind = "Rule"
          /\ Cardinality(DOMAIN p.valuation) = 2

(* C9: one proof for each distinct solution: no two proofs give the same   *)
(* goal, the goals of the proofs are solutions(tree), and the counts agree *)
(* (2 for b("c"). b("d"). a(X) :- b(X). and the query a(X)).               *)
ProofSolution(i) == SubstituteGoal(goal, prfs.list[i].valuation)

SimpleSolving == Pick(ClausePool, {1, 2, 3}, 1)

C9_OneProofPerSolution ==
    pc = "proved" =>
        /\ \A i, j \in DOMAIN prfs.list : ProofSolution(i) = ProofSolution(j) => i = j
        /\ {ProofSolution(i) : i \in DOMAIN prfs.list} = sols
        /\ Len(prfs.list) = Cardinality(sols)
        /\ (rules = SimpleSolving /\ goal = <<Literal("a", <<vX>>)>>) =>
              Len(prfs.list) = 2

(* Two paths of the tree end in the same solution. *)
C9_Witness ==
    /\ pc = "proved"
    /\ Len(prfs.list) >= 1
    /\ \E paths \in flatten_compose(0, QueryId, EmptySubstitution,
                                    goal_id_renaming(goal), result.tree) :
          Len(paths) > Len(prfs.list)

(* The arcs of the rule set, and the nodes reachable from a node by one or *)
(* more arcs.                                                              *)
Arcs ==
    {<<rules[r].head.args[1], rules[r].head.args[2]>> :
        r \in {q \in DOMAIN rules : rules[q].head.predicate = "arc"}}

RECURSIVE Closure(_)
Closure(S) ==
    LET more == S \cup {e[2] : e \in {f \in Arcs : f[1] \in S}}
    IN  IF more = S THEN S ELSE Closure(more)

ReachableFrom(x) == Closure({e[2] : e \in {f \in Arcs : f[1] = x}})

ReachExpected == {<<Literal("reach", <<Node("a"), y>>)>> : y \in ReachableFrom(Node("a"))}

(* C10: over any set of arc facts the solutions of reach("a", X) are the   *)
(* goals reach("a", y) for the nodes y reachable from a by one or more     *)
(* arcs.                                                                   *)
C10_ReachAnyArcs ==
    /\ pc # "panic"
    /\ Returned => (result.some <=> ReachExpected # {})
    /\ pc = "solved" => sols = ReachExpected

(* C10, amended: over any non-empty set of arc facts, with maxdepth at     *)
(* least twice the number of nodes, the solutions of reach("a", X) are the *)
(* goals reach("a", y) for the nodes y reachable from a by one or more     *)
(* arcs, and sld returns None when there is none.                          *)
C10_ReachSolutions ==
    Arcs # {} =>
        /\ pc # "panic"
        /\ Returned => (result.some <=> ReachExpected # {})
        /\ pc = "solved" => sols = ReachExpected

C10_Witness ==
    /\ pc = "solved"
    /\ Cardinality(sols) = 3
    /\ Cardinality(Arcs) = 3

(* The strings a^n b^n, n >= 1. *)
RECURSIVE Rep(_, _)
Rep(ch, n) == IF n = 0 THEN <<>> ELSE <<ch>> \o Rep(ch, n - 1)

IsAnBn(s) == \E n \in 1..Len(s) : s = Rep("a", n) \o Rep("b", n)

Tails(s) == {SubSeq(s, i, Len(s)) : i \in 1..(Len(s) + 1)}
Fronts(s) == {SubSeq(s, 1, i) : i \in 0..Len(s)}

ConcatGoal(x, y, z) ==
    <<Literal("string_concat", <<Constant(x), Constant(y), Constant(z)>>)>>

(* The ground instances of a string_concat literal that are true.          *)
ConcatInstances(l) ==
    LET A == l.args[1]
        B == l.args[2]
        C == l.args[3]
    IN  IF IsConstant(A) /\ IsConstant(B)
        THEN IF IsConstant(C) /\ C.s # A.s \o B.s THEN {}
             ELSE {ConcatGoal(A.s, B.s, A.s \o B.s)}
        ELSE IF IsConstant(A) /\ IsConstant(C)
        THEN {ConcatGoal(A.s, y, C.s) : y \in {w \in Tails(C.s) : A.s \o w = C.s}}
        ELSE IF IsConstant(B) /\ IsConstant(C)
        THEN {ConcatGoal(x, B.s, C.s) : x \in {w \in Fronts(C.s) : w \o B.s = C.s}}
        ELSE {}

ConstantCount(l) == Cardinality({i \in DOMAIN l.args : IsConstant(l.args[i])})

(* C11: a string_concat literal with two constant arguments has a single   *)
(* resolvent binding the third argument (A ++ B, the rest of C after A, or *)
(* the front of C before B) and none when C does not begin with A or end   *)
(* with B; with fewer than two constants it is not selectable; and for the *)
(* rules a("ab"). a(S) :- string_concat("a",X,S), string_concat(Y,"b",X),  *)
(* a(Y). the query a(s) has the one solution a(s) when s is a^n b^n and    *)
(* returns None otherwise.                                                 *)
C11_StringConcat ==
    /\ pc # "panic"
    /\ rules = <<>> =>
          LET l == goal[1]
          IN  /\ ConstantCount(l) < 2 =>
                    /\ select_builtin(l) = "GroundnessMismatch"
                    /\ \A i \in DOMAIN stack : stack[i].phase # "iter"
                    /\ Returned => ~result.some
              /\ ConstantCount(l) >= 2 =>
                    /\ Returned => (result.some <=> ConcatInstances(l) # {})
                    /\ (Returned /\ result.some) =>
                          Cardinality(DOMAIN result.tree.resolvents) = 1
                    /\ pc = "solved" => sols = ConcatInstances(l)
                    /\ Cardinality(ConcatInstances(l)) <= 1
              /\ (l.args = <<Constant(hello), Constant(world), vX>> /\ pc = "solved") =>
                    sols = {ConcatGoal(hello, world, hello \o world)}
    /\ rules = AnBnRules =>
          /\ Returned => (result.some <=> IsAnBn(goal[1].args[1].s))
          /\ pc = "solved" => sols = {goal}

C11_Witness ==
    /\ pc = "solved"
    /\ rules = AnBnRules
    /\ goal = <<Literal("a", <<Constant(<<"a", "a", "b", "b">>)>>)>>
    /\ sols = {goal}

(* A surface clause that is pure Horn, and the Horn clause it is.          *)
PureHorn(mc) ==
    \/ ~mc.body.some
    \/ mc.body.expr.k = "Literal"
    \/ /\ mc.body.expr.k = "ConjunctionList"
       /\ \A i \in DOMAIN mc.body.expr.exprs : mc.body.expr.exprs[i].k = "Literal"

HornOf(mc) ==
    Clause(mc.head,
           IF ~mc.body.some THEN <<>>
           ELSE IF mc.body.expr.k = "Literal" THEN <<mc.body.expr.lit>>
           ELSE [i \in DOMAIN mc.body.expr.exprs |-> mc.body.expr.exprs[i].lit])

Translated(t) == Len(threads[t].program) - Len(threads[t].todo)

(* C12: a pure-Horn surface clause translates to the one Horn clause with  *)
(* the same head and the same body literals in the same order, without a   *)
(* fetch of the fresh-predicate counter; a pure-Horn program translated    *)
(* clause by clause is that program.                                       *)
C12_PureHornUnchanged ==
    \A t \in DOMAIN threads :
        (\A i \in DOMAIN threads[t].program : PureHorn(threads[t].program[i])) =>
            /\ threads[t].clauses =
                  [i \in 1..Translated(t) |-> HornOf(threads[t].program[i])]
            /\ threads[t].names = <<>>
            /\ Len(threads) = 1 =>
                  (issued = <<>> /\ AVAILABLE_LITERAL_INDEX = index_at_start)

C12_Witness ==
    /\ Len(threads) = 1
    /\ Len(threads[1].program) = 2
    /\ threads[1].todo = <<>>
    /\ \A i \in DOMAIN threads[1].program : PureHorn(threads[1].program[i])
    /\ threads[1].program[1].body.some
    /\ threads[1].program[1].body.expr.k = "ConjunctionList"
    /\ Len(threads[1].program[1].body.expr.exprs) = 2
    /\ threads[1].program[1].body.expr.exprs[1] # threads[1].program[1].body.expr.exprs[2]

(* A conjunction of literals, and its literals.                            *)
LiteralConjunction(e) ==
    e.k = "ConjunctionList" /\ \A i \in DOMAIN e.exprs : e.exprs[i].k = "Literal"

LiteralsOf(e) ==
    IF e.k = "Literal" THEN <<e.lit>> ELSE [i \in DOMAIN e.exprs |-> e.exprs[i].lit]

(* A clause whose body is a disjunction of literals and conjunctions of    *)
(* literals.                                                               *)
FlatDisjunction(mc) ==
    /\ mc.body.some
    /\ mc.body.expr.k = "DisjunctionList"
    /\ \A i \in DOMAIN mc.body.expr.exprs :
          mc.body.expr.exprs[i].k = "Literal" \/ LiteralConjunction(mc.body.expr.exprs[i])

(* The one-clause translations that have returned.                         *)
Finished ==
    {t \in DOMAIN threads : Len(threads[t].program) = 1 /\ threads[t].todo = <<>>}

(* C13 as stated: a disjunction of literals and conjunctions of literals   *)
(* translates to one Horn clause for each branch, with the head of the     *)
(* surface clause and the literals of the branch, and to nothing else.     *)
C13_OneClausePerBranch ==
    \A t \in Finished :
        LET mc == threads[t].program[1]
        IN  FlatDisjunction(mc) =>
                threads[t].clauses =
                    [i \in DOMAIN mc.body.expr.exprs |->
                        Clause(mc.head, LiteralsOf(mc.body.expr.exprs[i]))]

(* The clauses of the branches: head :- l for a literal l, and for a       *)
(* conjunction head :- A followed by A :- its literals, A being named by   *)
(* the next value n of the counter.                                        *)
RECURSIVE BranchClauses(_, _, _)
BranchClauses(head, exprs, n) ==
    IF exprs = <<>> THEN <<>>
    ELSE IF Head(exprs).k = "Literal"
    THEN <<Clause(head, <<Head(exprs).lit>>)>> \o BranchClauses(head, Tail(exprs), n)
    ELSE LET A == Literal(replaced(n), <<>>)
         IN  <<Clause(head, <<A>>), Clause(A, LiteralsOf(Head(exprs)))>>
             \o BranchClauses(head, Tail(exprs), wrapping_add(n))

(* C13, amended: a branch that is a literal translates to the one clause   *)
(* head :- literal; a branch that is a conjunction of literals translates  *)
(* to head :- A and A :- literals for a fresh auxiliary predicate A; only  *)
(* a disjunction of literals translates to one clause for each branch.     *)
C13_DisjunctionBranches ==
    \A t \in Finished :
        LET mc == threads[t].program[1]
        IN  FlatDisjunction(mc) =>
                /\ threads[t].clauses =
                      BranchClauses(mc.head, mc.body.expr.exprs, index_at_start)
                /\ (\A i \in DOMAIN mc.body.expr.exprs : mc.body.expr.exprs[i].k = "Literal")
                      => /\ issued = <<>>
                         /\ Len(threads[t].clauses) = Len(mc.body.expr.exprs)

(* foo :- (a, b) ; c.                                                      *)
C13_Witness ==
    \E t \in Finished :
        LET mc == threads[t].program[1]
        IN  /\ FlatDisjunction(mc)
            /\ Len(mc.body.expr.exprs) = 2
            /\ LiteralConjunction(mc.body.expr.exprs[1])
            /\ Len(mc.body.expr.exprs[1].exprs) = 2
            /\ mc.body.expr.exprs[2].k = "Literal"
            /\ Len(threads[t].clauses) = 3

(* The expression without its operator applications.                       *)
RECURSIVE StripOperators(_)
StripOperators(e) ==
    IF e.k = "OperatorApplication" THEN StripOperators(e.exprs[1])
    ELSE [e EXCEPT !.exprs = [i \in DOMAIN e.exprs |-> StripOperators(e.exprs[i])]]

RECURSIVE Successive(_, _)
Successive(n, count) ==
    IF count = 0 THEN <<>> ELSE <<n>> \o Successive(wrapping_add(n), count - 1)

(* The translation of the clause with every (E)::op replaced by E, made    *)
(* from the same value of the counter.                                      *)
TranslationWithoutOperators(mc) ==
    LET stripped == ModusClause(mc.head, SomeBody(StripOperators(mc.body.expr)))
    IN  from(stripped, Successive(index_at_start, size(mc.body.expr))).clauses

(* An operator application whose expression is a literal, standing as an   *)
(* element of a conjunction or of a disjunction.                           *)
RECURSIVE OperatorOnLiteral(_)
OperatorOnLiteral(e) ==
    /\ e.k = "OperatorApplication"
    /\ e.exprs[1].k = "Literal" \/ OperatorOnLiteral(e.exprs[1])

RECURSIVE ListsOperatorOnLiteral(_)
ListsOperatorOnLiteral(e) ==
    \/ /\ e.k \in {"ConjunctionList", "DisjunctionList"}
       /\ \E i \in DOMAIN e.exprs : OperatorOnLiteral(e.exprs[i])
    \/ \E i \in DOMAIN e.exprs : ListsOperatorOnLiteral(e.exprs[i])

MentionsOperator(cl) ==
    cl.head = merge \/ \E i \in DOMAIN cl.body : cl.body[i] = merge

(* C14 as stated: wherever operator applications occur in the body, the    *)
(* clause translates to the Horn clauses of the body without them, and no  *)
(* emitted clause holds the operator literal.                              *)
C14_OperatorNoEffect ==
    \A t \in Finished :
        LET mc == threads[t].program[1]
        IN  mc.body.some =>
                /\ threads[t].clauses = TranslationWithoutOperators(mc)
                /\ \A i \in DOMAIN threads[t].clauses :
                      ~MentionsOperator(threads[t].clauses[i])

(* C14, amended: no emitted clause holds the operator literal, and the     *)
(* clause translates to the Horn clauses of the body without its operator  *)
(* applications exactly when no (E)::op with E a literal stands as an      *)
(* element of a conjunction or disjunction; such an element is replaced by *)
(* an auxiliary literal A with the clause A :- E, where E alone would have  *)
(* been kept in place.                                                     *)
C14_OperatorDropped ==
    \A t \in Finished :
        LET mc == threads[t].program[1]
        IN  mc.body.some =>
                /\ \A i \in DOMAIN threads[t].clauses :
                      ~MentionsOperator(threads[t].clauses[i])
                /\ ~ListsOperatorOnLiteral(mc.body.expr) <=>
                      threads[t].clauses = TranslationWithoutOperators(mc)
                /\ mc.body.expr.k = "OperatorApplication" =>
                      threads[t].clauses =
                          from(ModusClause(mc.head, SomeBody(mc.body.expr.exprs[1])),
                               Successive(index_at_start, size(mc.body.expr))).clauses

(* foo :- a, (E)::merge. with E a disjunction.                             *)
C14_Witness ==
    \E t \in Finished :
        LET mc == threads[t].program[1]
        IN  /\ mc.body.some
            /\ mc.body.expr.k = "ConjunctionList"
            /\ Len(mc.body.expr.exprs) = 2
            /\ mc.body.expr.exprs[2].k = "OperatorApplication"
            /\ mc.body.expr.exprs[2].exprs[1].k = "DisjunctionList"
            /\ Len(threads[t].clauses) = 2
            /\ threads[t].clauses = TranslationWithoutOperators(mc)

(* Ground facts for the body predicates over two constants, and the        *)
(* instances of the variable X.                                            *)
k1 == Constant(<<"1">>)
k2 == Constant(<<"2">>)

Instances == {Bind(vX, k1), Bind(vX, k2)}

FactUniverse ==
    {SubstituteLiteral(l, s) : l \in SurfaceLiterals, s \in Instances}

(* The surface body read as and/or under an instance of X, operators       *)
(* ignored.                                                                *)
RECURSIVE Satisfied(_, _, _)
Satisfied(e, s, facts) ==
    IF e.k = "Literal" THEN SubstituteLiteral(e.lit, s) \in facts
    ELSE IF e.k = "OperatorApplication" THEN Satisfied(e.exprs[1], s, facts)
    ELSE IF e.k = "ConjunctionList"
    THEN \A i \in DOMAIN e.exprs : Satisfied(e.exprs[i], s, facts)
    ELSE \E i \in DOMAIN e.exprs : Satisfied(e.exprs[i], s, facts)

(* The ground atoms derivable from the facts by the Horn clauses.          *)
RECURSIVE Consequences(_, _)
Consequences(cls, atoms) ==
    LET new == {SubstituteLiteral(cls[i].head, s) :
                   <<i, s>> \in {<<j, r>> \in (DOMAIN cls) \X Instances :
                       \A m \in DOMAIN cls[j].body :
                           SubstituteLiteral(cls[j].body[m], r) \in atoms}}
    IN  IF new \subseteq atoms THEN atoms ELSE Consequences(cls, atoms \cup new)

(* C15: for every set of ground facts, an instance of the head is          *)
(* derivable from the emitted clauses if and only if the surface body is   *)
(* satisfied under that instance.                                          *)
C15_Equivalent ==
    \A t \in Finished :
        LET mc == threads[t].program[1]
        IN  \A facts \in SUBSET FactUniverse, s \in Instances :
                SubstituteLiteral(mc.head, s) \in Consequences(threads[t].clauses, facts)
                <=> (~mc.body.some \/ Satisfied(mc.body.expr, s, facts))

(* The auxiliary predicates of the clauses a thread has emitted.           *)
AuxiliaryPredicates(t) ==
    {threads[t].clauses[i].head.predicate :
        i \in {j \in DOMAIN threads[t].clauses :
                  threads[t].clauses[j].head \notin {foo, bar}}}

(* C16: every fetch of the fresh-predicate counter, by whichever thread,   *)
(* obtains a value no other fetch obtained, the names made of the values   *)
(* differ, no two threads emit the same auxiliary predicate, and the       *)
(* counter never decreases.                                                *)
C16_DistinctValues ==
    /\ \A i, j \in DOMAIN issued :
          i # j => /\ issued[i] # issued[j]
                   /\ replaced(issued[i]) # replaced(issued[j])
    /\ \A t, u \in DOMAIN threads :
          t # u => AuxiliaryPredicates(t) \cap AuxiliaryPredicates(u) = {}
    /\ \A t \in DOMAIN threads :
          \A i \in DOMAIN threads[t].names :
              \E j \in DOMAIN issued : issued[j] = threads[t].names[i]

C16_UniqueNames ==
    /\ []C16_DistinctValues
    /\ [][~U32Less(AVAILABLE_LITERAL_INDEX', AVAILABLE_LITERAL_INDEX)]_vars

C16_Witness ==
    /\ Len(issued) = 2
    /\ \A t \in DOMAIN threads : threads[t].todo = <<>>
    /\ AuxiliaryPredicates(1) = {"__replaced1"}
    /\ AuxiliaryPredicates(2) = {"__replaced0"}

(* C17: the counter never wraps: its value never falls below the value it  *)
(* had, and no fetch obtains a value handed out before (a value below the  *)
(* one the counter started from, or one fetched earlier).                  *)
C17_NeverWraps ==
    /\ ~U32Less(AVAILABLE_LITERAL_INDEX, index_at_start)
    /\ \A i \in DOMAIN issued :
          /\ ~U32Less(issued[i], index_at_start)
          /\ \A j \in DOMAIN issued : i # j => issued[i] # issued[j]

(* C18: from_str returns Ok or Err for every text; it never panics.        *)
C18_NeverPanics == file_result.kind \in {"none", "Ok", "Err"}

(* The constant as the escapes define it: read from index i, a backslash   *)
(* and the character after it are one escape, and the first quote that is  *)
(* no part of an escape ends the constant.                                 *)
RECURSIVE Decoded(_, _, _)
Decoded(s, i, out) ==
    IF i > Len(s) THEN [closed |-> FALSE, value |-> <<>>, rest |-> <<>>]
    ELSE IF s[i] = dq THEN [closed |-> TRUE, value |-> out, rest |-> SubSeq(s, i + 1, Len(s))]
    ELSE IF s[i] # bs THEN Decoded(s, i + 1, Append(out, s[i]))
    ELSE IF i + 1 > Len(s) THEN [closed |-> FALSE, value |-> <<>>, rest |-> <<>>]
    ELSE LET ch == s[i + 1]
         IN  IF ch = "\n" THEN Decoded(s, skip_whitespace(s, i + 2), out)
             ELSE Decoded(s, i + 2,
                          out \o (CASE ch = dq -> <<dq>>
                                    [] ch = bs -> <<bs>>
                                    [] ch = "n" -> <<"\n">>
                                    [] ch = "r" -> <<"\r">>
                                    [] ch = "t" -> <<"\t">>
                                    [] ch = "0" -> <<NUL>>
                                    [] OTHER -> <<bs, ch>>))

ContentStart == IF input[1] = dq THEN 2 ELSE 3

(* C19: a constant whose escapes stand at any position parses to its       *)
(* content with every escape replaced by its character.                    *)
C19_EscapesDecoded ==
    (const_result # NotCalled /\ Decoded(input, ContentStart, <<>>).closed) =>
        /\ const_result.kind = "Ok"
        /\ const_result.value = Decoded(input, ContentStart, <<>>).value
        /\ const_result.rest = Decoded(input, ContentStart, <<>>).rest

(* The records the outputs call for: for every output its predicate, the   *)
(* texts of its arguments and the image id at the same position.           *)
Records ==
    [i \in DOMAIN build_plan |->
        [predicate |-> build_plan[i].v.predicate,
         args |-> [j \in DOMAIN build_plan[i].v.args |-> build_plan[i].v.args[j].s],
         digest |-> image_ids[i]]]

HaveSourceLiteral == \A i \in DOMAIN build_plan : build_plan[i].some

OutputsConstant ==
    \A i \in DOMAIN build_plan : build_plan[i].some => AllConstant(build_plan[i].v)

(* C20: write_build_result writes one record for every output, in the      *)
(* order of the outputs, with the predicate and constant arguments of the  *)
(* output's source literal and the image id of the same position; with an  *)
(* argument that is no constant the call panics and nothing is written;    *)
(* a failure of the writer is returned as Err with the writer's message.   *)
(* The call has an image id for every output, and the records are those of *)
(* outputs that have their source literal.                                 *)
C20_BuildResult ==
    (write_result # NotWritten /\ Len(image_ids) = Len(build_plan)) =>
        IF ~OutputsConstant
        THEN write_result.kind = "panic" /\ json_out = <<>>
        ELSE HaveSourceLiteral =>
            IF json_out_writer.fails
            THEN /\ write_result.kind = "Err"
                 /\ write_result.message =
                        "Error writing to build.json: " \o json_out_writer.e
            ELSE /\ write_result.kind = "Ok"
                 /\ json_out = to_vec_pretty(Records).bytes
                 /\ Cardinality({i \in 1..(Len(json_out) - 4) :
                                    SubSeq(json_out, i, i + 4)
                                        = <<"\n", " ", " ", "{", "\n">>})
                        = Len(build_plan)

C20_Witness ==
    /\ build_plan =
          <<Just(Literal("app", <<Constant(<<"a">>), Constant(<<"b", dq>>)>>)),
            Just(Literal("lib", <<Constant(<<bs, "\f", ControlChars[2], "é">>)>>))>>
    /\ image_ids = <<<<"i", "d", "2">>, <<"i", "d", "1">>>>
    /\ write_result.kind = "Ok"
    /\ json_out = as_bytes("[\n"
                   \o "  {\n"
                   \o "    \"predicate\": \"app\",\n"
                   \o "    \"args\": [\n"
                   \o "      \"a\",\n"
                   \o "      \"b\\\"\"\n"
                   \o "    ],\n"
                   \o "    \"digest\": \"id2\"\n"
                   \o "  },\n"
                   \o "  {\n"
                   \o "    \"predicate\": \"lib\",\n"
                   \o "    \"args\": [\n"
                   \o "      \"\\\\\\f\\u0001")
                   \o <<"c3", "a9">>
                   \o as_bytes("\"\n"
                   \o "    ],\n"
                   \o "    \"digest\": \"id1\"\n"
                   \o "  }\n"
                   \o "]")

(* The sequences of MGUs along the paths from the root of a tree to its    *)
(* leaves with an empty goal.                                              *)
RECURSIVE TreePaths(_)
TreePaths(tree) ==
    IF tree.goal = <<>> THEN {<<>>}
    ELSE UNION {{<<tree.resolvents[k].mgu>> \o p : p \in TreePaths(tree.resolvents[k].tree)} :
                   k \in DOMAIN tree.resolvents}

(* The MGUs of a path composed one after the other, the root's first.      *)
RECURSIVE ComposedInOrder(_, _, _)
ComposedInOrder(p, i, acc) ==
    IF i > Len(p) THEN acc ELSE ComposedInOrder(p, i + 1, compose_extend(acc, p[i]))

PathSolutions ==
    {SubstituteGoal(goal, ComposedInOrder(p, 1, EmptySubstitution)) :
        p \in TreePaths(result.tree)}

(* The texts of the constants of the rules and of the query, and what      *)
(* string_concat makes of two of them.                                     *)
ProgramTexts ==
    {t.s : t \in {x \in UNION {Range(FlattenArgs(<<rules[r].head>> \o rules[r].body)) :
                                  r \in DOMAIN rules}
                          \cup Range(FlattenArgs(goal)) :
                     IsConstant(x)}}

Herbrand == {Constant(s) : s \in ProgramTexts \cup {x \o y : x, y \in ProgramTexts}}

BuiltinHolds(l) ==
    /\ Signature(l) = <<"string_concat", 3>>
    /\ AllConstant(l)
    /\ l.args[3].s = l.args[1].s \o l.args[2].s

Groundings(c) == [Range(ClauseVariables(c)) -> Herbrand]

(* Forward chaining: the ground atoms over Herbrand that the rules derive  *)
(* from the atoms already derived and the true builtin atoms.              *)
RECURSIVE ForwardChained(_)
ForwardChained(atoms) ==
    LET new == UNION {{SubstituteLiteral(rules[r].head, s) :
                          s \in {g \in Groundings(rules[r]) :
                                    \A m \in DOMAIN rules[r].body :
                                        LET b == SubstituteLiteral(rules[r].body[m], g)
                                        IN  b \in atoms \/ BuiltinHolds(b)}} :
                      r \in DOMAIN rules}
    IN  IF new \subseteq atoms THEN atoms ELSE ForwardChained(atoms \cup new)

(* C21: every solution is the query under the MGUs of some path from the   *)
(* root to a leaf, composed in path order, and each of its literals is a   *)
(* ground atom that forward chaining over the rules and builtins derives;  *)
(* for the query a(X), b(X) the two literals of a solution carry the same  *)
(* binding.                                                                *)
C21_SolutionsAreConsequences ==
    pc \in {"solved", "proved"} =>
        /\ sols = PathSolutions
        /\ \A s \in sols : \A i \in DOMAIN s :
              s[i] \in ForwardChained({}) \/ BuiltinHolds(s[i])
        /\ goal = <<Literal("a", <<vX>>), Literal("b", <<vX>>)>> =>
              \A s \in sols : s[1].args = s[2].args

C21_Witness ==
    /\ pc = "solved"
    /\ goal = <<Literal("a", <<vX>>), Literal("b", <<vX>>)>>
    /\ Clause(Literal("b", <<kd>>), <<>>) \in Range(rules)
    /\ Clause(Literal("b", <<kc>>), <<>>) \in Range(rules)
    /\ sols = {<<Literal("a", <<kc>>), Literal("b", <<kc>>)>>}

(* The body of the clause a frame was called with, renamed as the frame    *)
(* records it; a builtin has no body.                                      *)
AppliedBody(f) ==
    IF f.key[2].kind = "Rule"
    THEN SubstituteGoal(rules[f.key[2].rid + 1].body, f.renaming)
    ELSE <<>>

(* C22: the goal of every invocation of inner below the root is the goal   *)
(* of its caller without the selected entry, the other entries in their    *)
(* order with introduction and origin kept, followed by the body literals  *)
(* of the applied clause in body order, literal k with origin (clause id,  *)
(* k) and introduction = caller's level + 1, the MGU applied to every      *)
(* literal; its length is |goal| - 1 + |body|.                             *)
C22_ResolventShape ==
    \A i \in 2..Len(stack) :
        LET p == stack[i - 1]
            f == stack[i]
            lid == f.key[1]
            applied == AppliedBody(f)
            n == Len(p.goal)
        IN  /\ p.lid = lid
            /\ Len(f.goal) = n - 1 + Len(applied)
            /\ \A j \in 1..(n - 1) :
                  LET src == p.goal[IF j <= lid THEN j ELSE j + 1]
                  IN  /\ f.goal[j].literal = SubstituteLiteral(src.literal, f.mgu)
                      /\ f.goal[j].introduction = src.introduction
                      /\ f.goal[j].origin = src.origin
            /\ \A k \in 1..Len(applied) :
                  /\ f.goal[n - 1 + k].literal = SubstituteLiteral(applied[k], f.mgu)
                  /\ f.goal[n - 1 + k].introduction = p.level + 1
                  /\ f.goal[n - 1 + k].origin.clause = f.key[2]
                  /\ f.goal[n - 1 + k].origin.body_index = k - 1

C22_Witness ==
    /\ Len(stack) >= 3
    /\ Top.key[2].kind = "Rule"
    /\ Len(AppliedBody(Top)) = 2
    /\ Len(stack[Len(stack) - 1].goal) >= 2
    /\ Top.mgu # EmptySubstitution
    /\ \E j \in DOMAIN Top.goal : Top.goal[j].introduction < Top.level - 1

(* The builtin resolvent the selected literal calls for: the dispatcher    *)
(* matches, an instantiation is computed, and it unifies with the literal. *)
BuiltinApplies(l) ==
    /\ select_builtin(l) = "Match"
    /\ builtin_apply(l).some
    /\ unify(builtin_apply(l).lit, l).ok

Occurrences(seq, x) == Cardinality({j \in DOMAIN seq : seq[j] = x})

(* The candidates of a frame that has just selected its literal: each rule *)
(* with the signature of the literal once, no other rule, and the builtin  *)
(* clause once if it applies.                                              *)
CandidatesAsExpected(f) ==
    LET l == f.goal[f.lid + 1].literal
    IN  /\ \A r \in DOMAIN rules :
              Occurrences(f.cands, RuleId(r - 1)) =
                  IF Signature(rules[r].head) = Signature(l) THEN 1 ELSE 0
        /\ \A j \in DOMAIN f.cands :
              f.cands[j].kind = "Builtin" =>
                  /\ BuiltinApplies(l)
                  /\ f.cands[j] = BuiltinId(builtin_apply(l).lit)
                  /\ Occurrences(f.cands, f.cands[j]) = 1
        /\ BuiltinApplies(l) => \E j \in DOMAIN f.cands : f.cands[j].kind = "Builtin"

(* Every key of a resolvents map has the selected index of its node, and   *)
(* no two keys have the same clause id.                                    *)
RECURSIVE KeysAsExpected(_)
KeysAsExpected(tree) ==
    /\ \A x, y \in DOMAIN tree.resolvents :
          x[1] = y[1] /\ (x[2] = y[2] => x = y)
    /\ \A k \in DOMAIN tree.resolvents : KeysAsExpected(tree.resolvents[k].tree)

(* C23: when a literal is selected the clauses to try are the builtin      *)
(* clause, if it applies, and every rule with the signature of the         *)
(* literal, each once; a candidate yields a resolvent (a call of inner)    *)
(* exactly when it is the builtin clause or its renamed head unifies with  *)
(* the literal, the builtin resolvent adding no literal; the keys of a     *)
(* resolvents map share the selected index and differ in the clause id.    *)
C23_CandidateStep ==
    (pc = "run" /\ stack # <<>> /\ stack' # stack) =>
        /\ (Top.phase = "call" /\ Len(stack') = Len(stack)
                /\ stack'[Len(stack)].phase = "iter")
              => CandidatesAsExpected(stack'[Len(stack)])
        /\ (Top.phase = "iter" /\ Top.cands # <<>>) =>
              LET cid == Head(Top.cands)
                  l == Top.goal[Top.lid + 1].literal
                  called == Len(stack') = Len(stack) + 1
              IN  /\ called <=>
                        \/ cid.kind = "Builtin"
                        \/ unify(rename_with_sub(rules[cid.rid + 1], auxCtr).clause.head,
                                 l).ok
                  /\ called => /\ stack'[Len(stack')].key = <<Top.lid, cid>>
                               /\ stack'[Len(stack')].phase = "call"
                  /\ (called /\ cid.kind = "Builtin") =>
                        Len(stack'[Len(stack')].goal) = Len(Top.goal) - 1
                  /\ stack'[Len(stack)].cands = Tail(Top.cands)

C23_Candidates ==
    /\ [][C23_CandidateStep]_vars
    /\ [](\A i \in DOMAIN stack :
             KeysAsExpected(Tree(stack[i].goal, stack[i].level, stack[i].resolvents)))
    /\ []((Returned /\ result.some) => KeysAsExpected(result.tree))

C23_Witness ==
    /\ Len(stack) >= 2
    /\ Top.key[2].kind = "Builtin"
    /\ Top.phase = "call"
    /\ LET p == stack[Len(stack) - 1]
       IN  /\ \E r \in DOMAIN rules : Signature(rules[r].head) # Signature(Top.key[2].lit)
           /\ Len(p.goal) >= 1
    /\ \E i \in DOMAIN stack :
          /\ Cardinality(DOMAIN stack[i].resolvents) >= 1
          /\ stack[i].phase = "iter"
          /\ Cardinality({r \in DOMAIN rules :
                 Signature(rules[r].head) =
                     Signature(stack[i].goal[stack[i].lid + 1].literal)}) >= 2

IsAuxiliary(t) == t.k = "AuxiliaryVariable"

HistoryGoalTerms(gl) == UNION {Range(gl[i].literal.args) : i \in DOMAIN gl}

SubstitutionTerms(s) == DOMAIN s \cup Range(s)

RECURSIVE TreeTerms(_)
TreeTerms(tree) ==
    HistoryGoalTerms(tree.goal)
    \cup UNION {SubstitutionTerms(tree.resolvents[k].mgu)
                \cup SubstitutionTerms(tree.resolvents[k].renaming)
                \cup TreeTerms(tree.resolvents[k].tree) : k \in DOMAIN tree.resolvents}

(* Every term the search holds: in the frames of the stack and in the      *)
(* sub-trees already built on this and on the other branches.              *)
SearchTerms ==
    UNION {SubstitutionTerms(stack[i].mgu) \cup SubstitutionTerms(stack[i].renaming)
           \cup TreeTerms(Tree(stack[i].goal, stack[i].level, stack[i].resolvents)) :
              i \in DOMAIN stack}

(* The variables the renaming of this step gives to the clause.            *)
RenamedVariables ==
    Range(rename_with_sub(rules[Head(Top.cands).rid + 1], auxCtr).renaming)

RenamingStep ==
    /\ pc = "run" /\ stack # <<>>
    /\ Top.phase = "iter" /\ Top.cands # <<>>
    /\ Head(Top.cands).kind = "Rule"

(* C24: at every resolution step with a rule the variables of the renamed  *)
(* clause are auxiliary variables that occur neither in the current goal   *)
(* nor anywhere else in the search so far, every earlier renaming having   *)
(* drawn its variables below the counter, which never goes back; two       *)
(* instances of a rule on one path share no variable.                      *)
C24_RenamingStep ==
    /\ auxCtr' >= auxCtr
    /\ (RenamingStep /\ stack' # stack) =>
          /\ \A v \in RenamedVariables :
                /\ IsAuxiliary(v)
                /\ v \notin HistoryGoalTerms(Top.goal)
                /\ v \notin SearchTerms
                /\ v.n >= auxCtr /\ v.n < auxCtr'
          /\ Cardinality(RenamedVariables)
                = Len(ClauseVariables(rules[Head(Top.cands).rid + 1]))
          /\ Len(stack') > Len(stack) =>
                /\ Range(stack'[Len(stack')].renaming) = RenamedVariables
                /\ \A i \in DOMAIN stack :
                      Range(stack[i].renaming) \cap RenamedVariables = {}

C24_FreshRenaming ==
    /\ [][C24_RenamingStep]_vars
    /\ [](\A v \in SearchTerms : IsAuxiliary(v) => v.n < auxCtr)
    /\ [](\A i, j \in DOMAIN stack :
             i # j => Range(stack[i].renaming) \cap Range(stack[j].renaming) = {})

C24_Witness ==
    /\ \E i, j \in DOMAIN stack :
          /\ 1 < i /\ i < j
          /\ stack[i].key[2].kind = "Rule"
          /\ stack[i].key[2] = stack[j].key[2]
          /\ stack[i].renaming # EmptySubstitution
          /\ DOMAIN stack[i].renaming = DOMAIN stack[j].renaming
    /\ \E i \in DOMAIN stack : \E v \in HistoryGoalTerms(stack[i].goal) : IsAuxiliary(v)

(* A tree standing at the given level: its level is that one and at most   *)
(* maxdepth, it has no resolvents exactly when its goal is empty, and its  *)
(* children are such trees one level deeper.                               *)
RECURSIVE WellFormedTree(_, _)
WellFormedTree(tree, level) ==
    /\ tree.level = level
    /\ tree.level <= maxdepth
    /\ (DOMAIN tree.resolvents = {}) <=> (tree.goal = <<>>)
    /\ \A k \in DOMAIN tree.resolvents :
          WellFormedTree(tree.resolvents[k].tree, level + 1)

(* The goals at the ends of the paths from the root.                       *)
RECURSIVE LeafGoals(_)
LeafGoals(tree) ==
    IF DOMAIN tree.resolvents = {} THEN {tree.goal}
    ELSE UNION {LeafGoals(tree.resolvents[k].tree) : k \in DOMAIN tree.resolvents}

RECURSIVE TreeLevels(_)
TreeLevels(tree) ==
    {tree.level} \cup UNION {TreeLevels(tree.resolvents[k].tree) :
                                k \in DOMAIN tree.resolvents}

(* C25: a tree returned by sld has its root at level 0 with the query,     *)
(* literal i tagged introduction 0 and origin (Query, i); each child is    *)
(* one level below its parent; a node has no resolvents if and only if     *)
(* its goal is empty; every path from the root ends at an empty goal; no   *)
(* level exceeds maxdepth.                                                 *)
C25_TreeWellFormed ==
    (Returned /\ result.some) =>
        /\ Len(result.tree.goal) = Len(goal)
        /\ \A i \in DOMAIN goal :
              /\ result.tree.goal[i].literal = goal[i]
              /\ result.tree.goal[i].introduction = 0
              /\ result.tree.goal[i].origin.clause = QueryId
              /\ result.tree.goal[i].origin.body_index = i - 1
        /\ WellFormedTree(result.tree, 0)
        /\ LeafGoals(result.tree) = {<<>>}

C25_Witness ==
    /\ pc = "done"
    /\ result.some
    /\ Len(goal) = 2
    /\ maxdepth >= 2
    /\ maxdepth \in TreeLevels(result.tree)
    /\ Cardinality(DOMAIN result.tree.resolvents)
          < Cardinality({r \in DOMAIN rules :
                Signature(rules[r].head) = Signature(goal[1])})

(* The number of clauses the translation of a clause with body e emits.    *)
ClauseCount(e) ==
    Len(from(ModusClause(bar, SomeBody(e)), [i \in 1..size(e) |-> U32Zero]).clauses)

(* For member i of a conjunction: the fetches and the clauses the members  *)
(* before it account for.                                                  *)
RECURSIVE FetchesBefore(_, _)
FetchesBefore(exprs, i) ==
    IF i <= 1 THEN 0
    ELSE FetchesBefore(exprs, i - 1)
         + (IF exprs[i - 1].k = "Literal" THEN 0
            ELSE 1 + fetch_count(ModusClause(bar, SomeBody(exprs[i - 1]))))

RECURSIVE ClausesBefore(_, _)
ClausesBefore(exprs, i) ==
    IF i <= 1 THEN 0
    ELSE ClausesBefore(exprs, i - 1)
         + (IF exprs[i - 1].k = "Literal" THEN 0 ELSE ClauseCount(exprs[i - 1]))

(* C26: the translation of a clause with the conjunction E1..En for body   *)
(* has one clause with the surface head, the last one emitted; its body    *)
(* has n literals, Ei itself where Ei is a literal and else a literal      *)
(* __replacedN without arguments, N a value no other auxiliary of the      *)
(* translation has; and for each such Ei the clauses of the translation    *)
(* of (__replacedN :- Ei) are emitted, before the clause of the surface    *)
(* head.                                                                   *)
C26_ConjunctionTranslation ==
    \A t \in Finished :
        LET mc == threads[t].program[1]
            exprs == mc.body.expr.exprs
            out == threads[t].clauses
            last == out[Len(out)]
        IN  (mc.body.some /\ mc.body.expr.k = "ConjunctionList") =>
                /\ Len(out) = ClausesBefore(exprs, Len(exprs) + 1) + 1
                /\ {j \in DOMAIN out : out[j].head = mc.head} = {Len(out)}
                /\ Len(last.body) = Len(exprs)
                /\ Cardinality(AuxiliaryPredicates(t)) = Len(issued)
                /\ \A i \in DOMAIN exprs :
                      IF exprs[i].k = "Literal" THEN last.body[i] = exprs[i].lit
                      ELSE LET f == FetchesBefore(exprs, i)
                               c == ClausesBefore(exprs, i)
                               n == fetch_count(ModusClause(bar, SomeBody(exprs[i])))
                           IN  /\ last.body[i].args = <<>>
                               /\ last.body[i].predicate = replaced(issued[f + 1])
                               /\ \A j \in DOMAIN exprs :
                                     j # i => last.body[j] # last.body[i]
                               /\ SubSeq(out, c + 1, c + ClauseCount(exprs[i]))
                                     = from(ModusClause(last.body[i], SomeBody(exprs[i])),
                                            SubSeq(issued, f + 2, f + 1 + n)).clauses
                               /\ c + ClauseCount(exprs[i]) < Len(out)

C26_Witness ==
    /\ 1 \in Finished
    /\ threads[1].program[1].body =
          SomeBody(ConjunctionList(<<ExprLiteral(Literal("a", <<vX>>)),
                                     DisjunctionList(<<ExprLiteral(Literal("b", <<vX>>)),
                                                       ExprLiteral(Literal("c", <<>>))>>)>>))
    /\ index_at_start = <<0, 9>>
    /\ threads[1].clauses =
          <<Clause(Literal("__replaced9", <<>>), <<Literal("b", <<vX>>)>>),
            Clause(Literal("__replaced9", <<>>), <<Literal("c", <<>>)>>),
            Clause(foo, <<Literal("a", <<vX>>), Literal("__replaced9", <<>>)>>)>>

RECURSIVE HasEmptyList(_)
HasEmptyList(e) ==
    \/ e.k \in {"ConjunctionList", "DisjunctionList"} /\ e.exprs = <<>>
    \/ \E i \in DOMAIN e.exprs : HasEmptyList(e.exprs[i])

(* A list directly inside a list. *)
RECURSIVE HasListInList(_)
HasListInList(e) ==
    \/ /\ e.k \in {"ConjunctionList", "DisjunctionList"}
       /\ \E i \in DOMAIN e.exprs :
             e.exprs[i].k \in {"ConjunctionList", "DisjunctionList"}
    \/ \E i \in DOMAIN e.exprs : HasListInList(e.exprs[i])

(* C27: for every clause whose body is a pruned expression built of        *)
(* literals, non-empty conjunctions and disjunctions and operator          *)
(* applications, the text the clause is displayed as parses, and parses to *)
(* a clause equal to it.                                                   *)
C27_RoundTrip ==
    (reparsed # NotCalled /\ ~HasEmptyList(pruned_clause.body.expr)) =>
        /\ reparsed.kind = "Ok"
        /\ reparsed.value = pruned_clause

(* The round trip of the clauses with no list directly inside a list. *)
C27_FlatRoundTrip ==
    (/\ reparsed # NotCalled
     /\ ~HasEmptyList(pruned_clause.body.expr)
     /\ ~HasListInList(pruned_clause.body.expr)) =>
        /\ reparsed.kind = "Ok"
        /\ reparsed.value = pruned_clause

C27_FlatWitness ==
    /\ reparsed.kind = "Ok"
    /\ reparsed.value = pruned_clause
    /\ pruned_clause.body.expr.k = "OperatorApplication"
    /\ pruned_clause.body.expr.exprs[1].k = "DisjunctionList"

(* A list of exactly one member, at any depth. *)
RECURSIVE HasSingleton(_)
HasSingleton(e) ==
    \/ e.k \in {"ConjunctionList", "DisjunctionList"} /\ Len(e.exprs) = 1
    \/ \E i \in DOMAIN e.exprs : HasSingleton(e.exprs[i])

(* The literals and the operators of an expression, from left to right. *)
RECURSIVE Atoms(_)
Atoms(e) ==
    IF e.k = "Literal" THEN <<e.lit>>
    ELSE IF e.k = "OperatorApplication"
    THEN <<Literal("(", <<>>)>> \o Atoms(e.exprs[1]) \o <<Literal(")", <<>>), e.lit>>
    ELSE IF e.exprs = <<>> THEN <<>>
    ELSE Atoms(e.exprs[1])
         \o Atoms([k |-> "ConjunctionList", lit |-> e.lit, exprs |-> Tail(e.exprs)])

(* p is e with the lists of one member replaced by the member: a literal   *)
(* is kept, an operator application keeps its operator, and a list of      *)
(* another length keeps its kind, its length and the order of its members. *)
RECURSIVE Kept(_, _)
Kept(e, p) ==
    IF e.k = "Literal" THEN p = e
    ELSE IF e.k = "OperatorApplication"
    THEN /\ p.k = "OperatorApplication"
         /\ p.lit = e.lit
         /\ Kept(e.exprs[1], p.exprs[1])
    ELSE IF Len(e.exprs) = 1 THEN Kept(e.exprs[1], p)
    ELSE /\ p.k = e.k
         /\ Len(p.exprs) = Len(e.exprs)
         /\ \A i \in DOMAIN e.exprs : Kept(e.exprs[i], p.exprs[i])

(* C30: the pruned expression has no list of one member at any depth, the  *)
(* inside of operator applications included; pruning it again changes      *)
(* nothing; literals, operators and the members of the other lists are     *)
(* kept, in order.                                                         *)
C30_PruneIdempotent ==
    (pruned_clause # NoClause /\ surface.body.some) =>
        LET e == surface.body.expr
            p == pruned_clause.body.expr
        IN  /\ ~HasSingleton(p)
            /\ prune(p) = p
            /\ Atoms(p) = Atoms(e)
            /\ Kept(e, p)

(* A list of one member under an operator has been pruned away. *)
C30_Witness ==
    /\ pruned_clause # NoClause
    /\ surface.body.some
    /\ surface.body.expr.k = "OperatorApplication"
    /\ surface.body.expr.exprs[1].k = "DisjunctionList"
    /\ Len(surface.body.expr.exprs[1].exprs) = 1
    /\ surface.body.expr.exprs[1].exprs[1].k = "ConjunctionList"
    /\ Len(surface.body.expr.exprs[1].exprs[1].exprs) = 2
    /\ pruned_clause.body.expr.exprs[1].k = "ConjunctionList"

(* Every reference of a node of the plan is smaller than the node's index. *)
WellOrdered(bp) ==
    \A i \in DOMAIN bp.nodes : \A r \in dependencies(bp.nodes[i]) : r < i - 1

(* The slots that a step fills or changes. *)
SlotsChanged ==
    {i \in DOMAIN translated_nodes :
        i \in DOMAIN translated_nodes' /\ translated_nodes'[i] # translated_nodes[i]}

(* A step that translates a node fills one slot, which was empty, and the  *)
(* slots of the nodes it refers to were filled before.                     *)
C28_TranslateStep ==
    (/\ WellOrdered(frontend_build_plan)
     /\ node_id >= 0
     /\ translated_nodes' # translated_nodes) =>
        \E i \in DOMAIN translated_nodes :
            /\ SlotsChanged = {i}
            /\ ~translated_nodes[i].some
            /\ translated_nodes'[i].some
            /\ \A r \in dependencies(frontend_build_plan.nodes[i]) :
                  translated_nodes[r + 1].some

(* The call has ended in the panic of a lookup: of a parent, of a source   *)
(* image or of the node of an output.                                      *)
LookupFailed ==
    /\ plan_result.kind = "panic"
    /\ \/ plan_result.message
             \in {expect_failed, unwrap_failed, "Expected output to be built"}
       \/ /\ Len(plan_result.message) >= 19
          /\ SubSeq(plan_result.message, 1, 19) = "index out of bounds"

(* No lookup fails; every node is translated when the loop has ended; and  *)
(* the list returned has the translation of the node of every output, in   *)
(* the order of the plan.                                                  *)
C28_NoFailure ==
    WellOrdered(frontend_build_plan) =>
        /\ ~LookupFailed
        /\ node_id = Len(frontend_build_plan.nodes) =>
              \A i \in DOMAIN translated_nodes : translated_nodes[i].some
        /\ plan_result.kind = "Ok" =>
              /\ node_id = Len(frontend_build_plan.nodes)
              /\ Len(plan_result.value) = Len(frontend_build_plan.outputs)
              /\ \A i \in DOMAIN plan_result.value :
                    plan_result.value[i]
                        = translated_nodes[frontend_build_plan.outputs[i].node + 1].v

(* C28: for a plan whose references are all smaller than the referring     *)
(* node's index, every node is translated once and after the nodes it      *)
(* refers to, no lookup of a parent, a source image or an output fails,    *)
(* every node is translated when the outputs are collected, and the list   *)
(* returned has one entry for every output, in plan order.  The call ends  *)
(* in a panic only when the bridge fails or the file of patterns is no     *)
(* text.                                                                   *)
C28_PlanOrder == [][C28_TranslateStep]_vars /\ []C28_NoFailure

(* A plan of three nodes, the third copying from the first into the        *)
(* second, has returned its two outputs.                                   *)
C28_Witness ==
    /\ WellOrdered(frontend_build_plan)
    /\ Len(frontend_build_plan.nodes) = 3
    /\ frontend_build_plan.nodes[3].k = "CopyFromImage"
    /\ frontend_build_plan.nodes[3].parent = 1
    /\ frontend_build_plan.nodes[3].src_image = 0
    /\ plan_result.kind = "Ok"
    /\ Len(plan_result.value) = 2
    /\ plan_result.value[1] # plan_result.value[2]

(* A plan with a reference that is not smaller than the node's index       *)
(* fails at the lookup.                                                    *)
C28_FailureWitness ==
    /\ ~WellOrdered(frontend_build_plan)
    /\ plan_result.kind = "panic"
    /\ plan_result.message = expect_failed

ConfigFields ==
    {"user", "exposed_ports", "env", "entrypoint", "cmd", "volumes",
     "working_dir", "labels", "stop_signal"}

(* The configuration of an image specification, one that is absent read as *)
(* the configuration with no field set.                                    *)
ConfigOf(image_spec) ==
    IF image_spec.config.some THEN image_spec.config.v
    ELSE [f \in ConfigFields |-> Nothing]

(* new is old but for the field named. *)
SameBut(old, new, field) ==
    /\ new.image = old.image
    /\ new.config.some
    /\ \A f \in ConfigFields \ {field} : ConfigOf(new)[f] = ConfigOf(old)[f]

LabelsOf(image_spec) ==
    IF ConfigOf(image_spec).labels.some THEN ConfigOf(image_spec).labels.v ELSE <<>>

(* What the entry new of the node says about the entry of its parent. *)
FrameOf(node, parent, new) ==
    IF node.k \in {"Run", "CopyFromImage", "CopyFromLocal"}
    THEN new[2] = parent[2]
    ELSE IF node.k = "SetWorkdir"
    THEN /\ new[1] = parent[1]
         /\ SameBut(parent[2], new[2], "working_dir")
         /\ ConfigOf(new[2]).working_dir
               = Just(path_join(get_cwd_from_image_spec(parent[2]), node.text1))
    ELSE IF node.k = "SetEntrypoint"
    THEN /\ new[1] = parent[1]
         /\ SameBut(parent[2], new[2], "entrypoint")
         /\ ConfigOf(new[2]).entrypoint = Just(node.text1)
    ELSE IF node.k = "SetLabel"
    THEN /\ new[1] = parent[1]
         /\ SameBut(parent[2], new[2], "labels")
         /\ DOMAIN LabelsOf(new[2]) = DOMAIN LabelsOf(parent[2]) \cup {node.text1}
         /\ LabelsOf(new[2])[node.text1] = node.text2
         /\ \A x \in DOMAIN LabelsOf(parent[2]) \ {node.text1} :
               LabelsOf(new[2])[x] = LabelsOf(parent[2])[x]
    ELSE TRUE

(* Every translated node other than a From stands to the entry of its      *)
(* parent as its kind says.                                                *)
C29_Entries ==
    \A i \in DOMAIN translated_nodes :
        (translated_nodes[i].some /\ frontend_build_plan.nodes[i].k # "From") =>
            LET node == frontend_build_plan.nodes[i]
            IN  /\ node.parent + 1 \in DOMAIN translated_nodes
                /\ translated_nodes[node.parent + 1].some
                /\ FrameOf(node, translated_nodes[node.parent + 1].v,
                           translated_nodes[i].v)

(* A step changes no entry but that of the node it translates, which was   *)
(* empty.                                                                  *)
C29_OthersKept ==
    node_id >= 0 =>
        \A i \in DOMAIN translated_nodes :
            translated_nodes[i].some => translated_nodes'[i] = translated_nodes[i]

(* C29: a SetWorkdir, SetEntrypoint or SetLabel node has the output of its *)
(* parent and the parent's image specification but for the field it sets   *)
(* (the other labels are kept; the working directory is the parent's       *)
(* joined with new_workdir); a Run, CopyFromImage or CopyFromLocal node    *)
(* has the parent's image specification; and translating a node changes no *)
(* entry translated before.                                                *)
C29_FrameEffects == [][C29_OthersKept]_vars /\ []C29_Entries

(* A label set on an image with two labels, one of them of that name; then *)
(* a working directory set on an image with a relative one.                *)
C29_Witness ==
    /\ Len(frontend_build_plan.nodes) = 3
    /\ frontend_build_plan.nodes[1] = From("app")
    /\ frontend_build_plan.nodes[2] = SetLabel(0, "k1", "new")
    /\ frontend_build_plan.nodes[3] = SetWorkdir(1, PathBuf(FALSE, <<"d">>))
    /\ translated_nodes # <<>>
    /\ translated_nodes[3].some
    /\ LabelsOf(translated_nodes[3].v[2]) = [x \in {"k1", "k2"} |->
                                               IF x = "k1" THEN "new" ELSE "old"]
    /\ ConfigOf(translated_nodes[3].v[2]).working_dir
          = Just(PathBuf(TRUE, <<"srv", "d">>))
    /\ translated_nodes[3].v[1] = translated_nodes[1].v[1]

====
